---- MODULE Spec2Model ----
(***************************************************************************)
(* A model of the FLAC codec core of pchchv/flac: the stream orchestrator  *)
(* (signature, seek table, Seek), the frame header code tables, the        *)
(* inter-channel decorrelation, the LPC recurrence and the integer codecs  *)
(* (ZigZag, "UTF-8" coded numbers).                                        *)
(*                                                                         *)
(* Machine integers.  TLC integers are 32-bit, so a Go value wider than    *)
(* int32 (uint32, int64, uint64) is held as a pair [h, l] that stands for  *)
(* h * 2^16 + l with 0 <= l < 2^16.  An int32 is a plain integer in        *)
(* -2^31 .. 2^31-1; every int32 operation of the code wraps as Go does.    *)
(***************************************************************************)
EXTENDS Integers, Sequences, FiniteSets, TLC

VARIABLES
    stream,   \* the flac.Stream under test and the bytes it reads
    ret,      \* the last call on the stream and what it returned
    fx        \* a pure function under test: its input, stage and outputs

vars == <<stream, ret, fx>>

Nil == "nil"

\* The value of the variables a specification does not use.
Idle == [op |-> "idle"]

----------------------------------------------------------------------------
(* Go integer arithmetic *)

RECURSIVE Pow2(_)
Pow2(n) == IF n = 0 THEN 1 ELSE 2 * Pow2(n - 1)

\* The radix of the [h, l] pairs: 2^16.
Half == Pow2(16)

MinInt32 == 0 - Pow2(30) - Pow2(30)

MaxInt32 == Pow2(30) - 1 + Pow2(30)

\* The pair that stands for h * 2^16 + l, with l brought into 0 .. 2^16-1.
Norm(h, l) == [h |-> h + (l \div Half), l |-> l % Half]

\* int64(a) for an int32 a.
Wide(a) == Norm(a \div Half, a % Half)

\* int32(w): the low 32 bits of w as a signed number.
ToInt32(w) ==
    LET hh == w.h % Half
    IN  (IF hh >= Half \div 2 THEN hh - Half ELSE hh) * Half + w.l

\* uint32(w): the low 32 bits of w, as a pair with 0 <= h < 2^16.
ToUint32(w) == [h |-> w.h % Half, l |-> w.l]

WAdd(v, w) == Norm(v.h + w.h, v.l + w.l)

WSub(v, w) == Norm(v.h - w.h, v.l - w.l)

\* int64(c) * int64(a) for int32 c and a with |c| < 2^15.
WMul(c, a) == Norm(c * (a \div Half), c * (a % Half))

\* w >> k, the arithmetic shift of Go on a signed value, k >= 0.
RECURSIVE WShr(_, _)
WShr(w, k) ==
    IF k = 0 THEN w
    ELSE IF k >= 16 THEN WShr([h |-> w.h \div Half, l |-> w.h % Half], k - 16)
    ELSE [h |-> w.h \div Pow2(k),
          l |-> (w.h % Pow2(k)) * Pow2(16 - k) + (w.l \div Pow2(k))]

\* w << 1 on a pair (no truncation).
WShl1(w) == Norm(2 * w.h, 2 * w.l)

\* int32 addition, subtraction and doubling, wrapping modulo 2^32.
Add32(a, b) == ToInt32(WAdd(Wide(a), Wide(b)))

Sub32(a, b) == ToInt32(WSub(Wide(a), Wide(b)))

Mul32(c, a) == ToInt32(WMul(c, a))

\* Bitwise operators on naturals below 2^n.
RECURSIVE BitXor(_, _, _)
BitXor(a, b, n) ==
    IF n = 0 THEN 0
    ELSE ((a + b) % 2) + 2 * BitXor(a \div 2, b \div 2, n - 1)

RECURSIVE BitAnd(_, _, _)
BitAnd(a, b, n) ==
    IF n = 0 THEN 0
    ELSE ((a % 2) * (b % 2)) + 2 * BitAnd(a \div 2, b \div 2, n - 1)

RECURSIVE BitOr(_, _, _)
BitOr(a, b, n) ==
    IF n = 0 THEN 0
    ELSE (IF (a % 2) + (b % 2) > 0 THEN 1 ELSE 0)
         + 2 * BitOr(a \div 2, b \div 2, n - 1)

\* v ^ w on pairs, half by half (the high halves taken modulo 2^16).
WXor(v, w) ==
    [h |-> BitXor(v.h % Half, w.h % Half, 16), l |-> BitXor(v.l, w.l, 16)]

\* a ^ b on int32.
Xor32(a, b) == ToInt32(WXor(Wide(a), Wide(b)))

----------------------------------------------------------------------------
(* internal/bits: ZigZag *)

\* A broken decoder: the sign mask is not applied.
DecodeZigZagNoSign(x) == ToInt32(WShr(x, 1))

\* DecodeZigZag(x uint32) int32 = int32(x>>1) ^ -int32(x&1)
DecodeZigZag(x) ==
    Xor32(ToInt32(WShr(x, 1)), 0 - (x.l % 2))

\* EncodeZigZag(x int32) uint32 = (x << 1) ^ (x >> 31)
EncodeZigZag(x) ==
    ToUint32(WXor(WShl1(Wide(x)), WShr(Wide(x), 31)))

\* ZigSpan values at each end of a range and around its middle are tried.
ZigSpan == 12

ZigInts ==
    (0 - ZigSpan .. ZigSpan)
    \cup {MinInt32 + k : k \in 0 .. ZigSpan}
    \cup {MaxInt32 - k : k \in 0 .. ZigSpan}

ZigUints ==
    {[h |-> 0, l |-> k] : k \in 0 .. 2 * ZigSpan}
    \cup {[h |-> Half - 1, l |-> Half - 1 - k] : k \in 0 .. ZigSpan}
    \cup {[h |-> Half \div 2, l |-> k] : k \in 0 .. ZigSpan}
    \cup {[h |-> Half \div 2 - 1, l |-> Half - 1 - k] : k \in 0 .. ZigSpan}

InitZigZag ==
    /\ stream = Idle
    /\ ret = Idle
    /\ \/ \E x \in ZigInts :
            fx = [op |-> "zigzag", kind |-> "int32", in |-> x, mid |-> Nil,
                  out |-> Nil, pc |-> 0]
       \/ \E u \in ZigUints :
            fx = [op |-> "zigzag", kind |-> "uint32", in |-> u, mid |-> Nil,
                  out |-> Nil, pc |-> 0]

\* bits.EncodeZigZag applied to the input, or to what DecodeZigZag returned.
ZigEncode ==
    /\ fx.op = "zigzag"
    /\ \/ /\ fx.kind = "int32" /\ fx.pc = 0
          /\ fx' = [fx EXCEPT !.mid = EncodeZigZag(fx.in), !.pc = 1]
       \/ /\ fx.kind = "uint32" /\ fx.pc = 1
          /\ fx' = [fx EXCEPT !.out = EncodeZigZag(fx.mid), !.pc = 2]
    /\ UNCHANGED <<stream, ret>>

\* bits.DecodeZigZag applied to the input, or to what EncodeZigZag returned.
ZigDecode ==
    /\ fx.op = "zigzag"
    /\ \/ /\ fx.kind = "uint32" /\ fx.pc = 0
          /\ fx' = [fx EXCEPT !.mid = DecodeZigZag(fx.in), !.pc = 1]
       \/ /\ fx.kind = "int32" /\ fx.pc = 1
          /\ fx' = [fx EXCEPT !.out = DecodeZigZag(fx.mid), !.pc = 2]
    /\ UNCHANGED <<stream, ret>>

NextZigZag == ZigEncode \/ ZigDecode

SpecZigZag == InitZigZag /\ [][NextZigZag]_vars

\* C10: ZigZag coding is a bijection between int32 and uint32: decoding an
\* encoded int32 gives it back, encoding a decoded uint32 gives it back, the
\* intermediate value is in the range of its type, and 0,1,2,3,4 decode to
\* 0,-1,1,-2,2.
ZigZagBijection ==
    fx.op = "zigzag" =>
        /\ fx.pc = 2 => fx.out = fx.in
        /\ (fx.pc >= 1 /\ fx.kind = "int32") =>
               /\ fx.mid.h \in 0 .. Half - 1
               /\ fx.mid.l \in 0 .. Half - 1
        /\ (fx.pc >= 1 /\ fx.kind = "uint32") =>
               /\ fx.mid \in MinInt32 .. MaxInt32
               /\ (fx.in.h = 0 /\ fx.in.l <= 4) =>
                      fx.mid = <<0, -1, 1, -2, 2>>[fx.in.l + 1]

\* The round trip has been made by the most negative int32, or by the largest
\* uint32 (odd, top bit set).
ZigZagWitness ==
    /\ fx.op = "zigzag"
    /\ fx.pc = 2
    /\ \/ fx.kind = "int32" /\ fx.in = MinInt32
       \/ fx.kind = "uint32" /\ fx.in = [h |-> Half - 1, l |-> Half - 1]

----------------------------------------------------------------------------
(* internal/utf8: "UTF-8" coded numbers of up to 36 bits *)

tx == 128

t2 == 192

t3 == 224

t4 == 240

t5 == 248

t6 == 252

t7 == 254

t8 == 255

maskx == 63

mask2 == 31

mask3 == 15

mask4 == 7

mask5 == 3

mask6 == 1

\* The uint64 n, for 0 <= n < 2^16.
WNat(n) == [h |-> 0, l |-> n]

\* 1<<n - 1 as a uint64.
WOnes(n) ==
    IF n < 16 THEN WNat(Pow2(n) - 1) ELSE [h |-> Pow2(n - 16) - 1, l |-> Half - 1]

rune1Max == WOnes(7)

rune2Max == WOnes(11)

rune3Max == WOnes(16)

rune4Max == WOnes(21)

rune5Max == WOnes(26)

rune6Max == WOnes(31)

rune7Max == WOnes(36)

\* v <= w on uint64.
WLe(v, w) == v.h < w.h \/ (v.h = w.h /\ v.l <= w.l)

\* w << k on a uint64 that stays below 2^36.
WShl(w, k) == Norm(w.h * Pow2(k), w.l * Pow2(k))

\* byte(w & mask) for a mask below 2^8.
LowAnd(w, mask) == BitAnd(w.l % 256, mask, 8)

\* The number of continuation bytes Encode picks for x (0 when no case of its
\* switch matches).
EncodeLen(x) ==
    CASE WLe(x, rune2Max) -> 1
      [] WLe(x, rune3Max) -> 2
      [] WLe(x, rune4Max) -> 3
      [] WLe(x, rune5Max) -> 4
      [] WLe(x, rune6Max) -> 5
      [] WLe(x, rune7Max) -> 6
      [] OTHER -> 0

\* The first byte Encode writes for a number above rune1Max.
EncodeFirst(x) ==
    CASE WLe(x, rune2Max) -> BitOr(t2, LowAnd(WShr(x, 6), mask2), 8)
      [] WLe(x, rune3Max) -> BitOr(t3, LowAnd(WShr(x, 6 * 2), mask3), 8)
      [] WLe(x, rune4Max) -> BitOr(t4, LowAnd(WShr(x, 6 * 3), mask4), 8)
      [] WLe(x, rune5Max) -> BitOr(t5, LowAnd(WShr(x, 6 * 4), mask5), 8)
      [] WLe(x, rune6Max) -> BitOr(t6, LowAnd(WShr(x, 6 * 5), mask6), 8)
      [] WLe(x, rune7Max) -> 0
      [] OTHER -> 0

\* utf8.Encode: the bytes written for the uint64 x.
Encode(x) ==
    IF WLe(x, rune1Max) THEN <<x.l % 256>>
    ELSE LET l == EncodeLen(x)
         IN  <<EncodeFirst(x)>> \o
             [j \in 1 .. l |-> BitOr(tx, LowAnd(WShr(x, 6 * (l - j)), maskx), 8)]

\* The continuation loop of Decode: l bytes are still to be read, n bytes of
\* b have been read and x holds the bits so far.
RECURSIVE DecodeCont(_, _, _, _)
DecodeCont(b, n, l, x) ==
    IF l = 0 THEN [x |-> x, err |-> Nil, n |-> n]
    ELSE IF n >= Len(b) THEN [x |-> WNat(0), err |-> "ErrUnexpectedEOF", n |-> n]
    ELSE LET c == b[n + 1]
         IN  IF c < tx \/ t2 <= c
             THEN [x |-> WNat(0), err |-> "expected continuation byte", n |-> n + 1]
             ELSE DecodeCont(b, n + 1, l - 1,
                             LET y == WShl(x, 6)
                             IN  [y EXCEPT !.l = BitOr(y.l, BitAnd(c, maskx, 8), 16)])

\* The check of Decode that the number is not stored in more bytes than needed.
DecodeOverlong(l, x) ==
    CASE l = 1 -> WLe(x, rune1Max)
      [] l = 2 -> WLe(x, rune2Max)
      [] l = 3 -> WLe(x, rune3Max)
      [] l = 4 -> WLe(x, rune4Max)
      [] l = 5 -> WLe(x, rune5Max)
      [] l = 6 -> WLe(x, rune6Max)
      [] OTHER -> FALSE

\* utf8.Decode on a reader that holds the bytes b: the number, the error and
\* the count of bytes consumed.
Decode(b) ==
    IF Len(b) = 0 THEN [x |-> WNat(0), err |-> "EOF", n |-> 0]
    ELSE LET c0 == b[1]
         IN  IF c0 < tx THEN [x |-> WNat(c0), err |-> Nil, n |-> 1]
             ELSE IF c0 < t2
             THEN [x |-> WNat(0), err |-> "unexpected continuation byte", n |-> 1]
             ELSE LET l == CASE c0 < t3 -> 1
                              [] c0 < t4 -> 2
                              [] c0 < t5 -> 3
                              [] c0 < t6 -> 4
                              [] c0 < t7 -> 5
                              [] c0 < t8 -> 6
                              [] OTHER -> 0
                      x0 == CASE c0 < t3 -> BitAnd(c0, mask2, 8)
                              [] c0 < t4 -> BitAnd(c0, mask3, 8)
                              [] c0 < t5 -> BitAnd(c0, mask4, 8)
                              [] c0 < t6 -> BitAnd(c0, mask5, 8)
                              [] c0 < t7 -> BitAnd(c0, mask6, 8)
                              [] OTHER -> 0
                      r == DecodeCont(b, 1, l, WNat(x0))
                  IN  IF r.err # Nil THEN r
                      ELSE IF DecodeOverlong(l, r.x)
                      THEN [x |-> WNat(0), err |-> "overlong", n |-> r.n]
                      ELSE r

\* The numbers tried: Utf8Span numbers on each side of the first number of
\* every length class, and the last ones below 2^36.
Utf8Span == 3

Utf8Edges == {rune1Max, rune2Max, rune3Max, rune4Max, rune5Max, rune6Max}

Utf8Numbers ==
    {WNat(k) : k \in 0 .. Utf8Span}
    \cup {WAdd(e, WNat(k)) : e \in Utf8Edges, k \in 0 .. Utf8Span + 1}
    \cup {WSub(e, WNat(k)) : e \in Utf8Edges \cup {rune7Max}, k \in 0 .. Utf8Span}

\* The bytes tried by hand: every sequence of up to Utf8Len bytes over
\* Utf8Bytes, which holds the first and last byte of each prefix class.
Utf8Len == 3

Utf8Bytes == {0, tx - 1, tx, tx + 1, t2 - 1, t2, t2 + 1, t3 - 1, t3, t4, t5, t6, t7, t8}

RECURSIVE SeqsUpTo(_, _)
SeqsUpTo(S, n) ==
    IF n = 0 THEN {<<>>}
    ELSE LET shorter == SeqsUpTo(S, n - 1)
         IN  shorter \cup {Append(q, e) : q \in {p \in shorter : Len(p) = n - 1}, e \in S}

\* The number x stored in l continuation bytes after a first byte of that
\* class, whether or not l is the least length that holds x.
StoreIn(l, x) ==
    <<IF l = 6 THEN t7
      ELSE BitOr(<<t2, t3, t4, t5, t6>>[l],
                 LowAnd(WShr(x, 6 * l), <<mask2, mask3, mask4, mask5, mask6>>[l]), 8)>>
    \o [j \in 1 .. l |-> BitOr(tx, LowAnd(WShr(x, 6 * (l - j)), maskx), 8)]

Utf8Inputs ==
    SeqsUpTo(Utf8Bytes, Utf8Len)
    \cup UNION {{StoreIn(l, x) : x \in {y \in Utf8Numbers : WLe(y, WOnes(5 * l + 6))}} :
                l \in 1 .. 6}

InitUtf8 ==
    /\ stream = Idle
    /\ ret = Idle
    /\ \/ \E x \in Utf8Numbers :
            fx = [op |-> "utf8", kind |-> "number", in |-> x, bytes |-> Nil,
                  out |-> Nil, pc |-> 0]
       \/ \E b \in Utf8Inputs :
            fx = [op |-> "utf8", kind |-> "bytes", in |-> b, bytes |-> b,
                  out |-> Nil, pc |-> 1]

\* utf8.Encode(w, x) on an empty buffer.
Utf8Encode ==
    /\ fx.op = "utf8" /\ fx.pc = 0
    /\ fx' = [fx EXCEPT !.bytes = Encode(fx.in), !.pc = 1]
    /\ UNCHANGED <<stream, ret>>

\* utf8.Decode(r) on a reader over the bytes.
Utf8Decode ==
    /\ fx.op = "utf8" /\ fx.pc = 1
    /\ fx' = [fx EXCEPT !.out = Decode(fx.bytes), !.pc = 2]
    /\ UNCHANGED <<stream, ret>>

NextUtf8 == Utf8Encode \/ Utf8Decode

SpecUtf8 == InitUtf8 /\ [][NextUtf8]_vars

\* C8: for every v with 0 <= v < 2^36, Decode applied to the bytes written by
\* Encode(v) returns v without an error and consumes exactly those bytes.
Utf8RoundTrip ==
    (fx.op = "utf8" /\ fx.kind = "number" /\ fx.pc = 2) =>
        /\ fx.out.err = Nil
        /\ fx.out.x = fx.in
        /\ fx.out.n = Len(fx.bytes)

\* The canonical form of a coded number, stated on the bytes: a first byte
\* 0xxxxxxx, or a first byte of l+1 leading ones and a zero (l in 1..6)
\* followed by l bytes 10xxxxxx, where the payload does not fit in the
\* payload bits of the class below (7 bits for l = 1, 5*l + 1 otherwise).
Utf8Canonical(b) ==
    /\ Len(b) >= 1
    /\ \/ b[1] < 128
       \/ \E l \in 1 .. 6 :
            /\ b[1] >= 256 - Pow2(7 - l)
            /\ b[1] < 256 - Pow2(6 - l)
            /\ Len(b) >= l + 1
            /\ \A j \in 2 .. l + 1 : b[j] >= 128 /\ b[j] < 192
            /\ LET p0 == b[1] % Pow2(6 - l)
                   p1 == b[2] % 64
               IN  IF l = 1 THEN p0 >= 2
                   ELSE p0 > 0 \/ p1 >= Pow2(7 - l)

\* C9: Decode returns an error, never a value, for every input that is not a
\* canonical encoding (invalid first byte 10xxxxxx or 0xFF, a following byte
\* not of the form 10xxxxxx, or an overlong encoding).
Utf8RejectsNonCanonical ==
    (fx.op = "utf8" /\ fx.pc = 2 /\ fx.out.err = Nil) => Utf8Canonical(fx.bytes)

----------------------------------------------------------------------------
(* frame: inter-channel decorrelation *)

ChannelsLR == 1

ChannelsLeftSide == 8

ChannelsSideRight == 9

ChannelsMidSide == 10

\* a | b on int32.
Or32(a, b) ==
    LET v == Wide(a)
        w == Wide(b)
    IN  ToInt32([h |-> BitOr(v.h % Half, w.h % Half, 16), l |-> BitOr(v.l, w.l, 16)])

\* a / 2 on int32: Go's division truncates toward zero.
Quo2(a) == (a \div 2) + (IF a < 0 /\ a % 2 = 1 THEN 1 ELSE 0)

\* One sample pair of Frame.Decorrelate: what subframes 0 and 1 hold after it.
DecorrelatePair(channels, l, r) ==
    CASE channels = ChannelsLeftSide -> <<l, Sub32(l, r)>>
      [] channels = ChannelsSideRight -> <<Sub32(l, r), r>>
      [] channels = ChannelsMidSide ->
            <<ToInt32(WShr(WAdd(Wide(l), Wide(r)), 1)), Sub32(l, r)>>
      [] OTHER -> <<l, r>>

\* One sample pair of Frame.Correlate: what subframes 0 and 1 hold after it.
CorrelatePair(channels, a, b) ==
    CASE channels = ChannelsLeftSide -> <<a, Sub32(a, b)>>
      [] channels = ChannelsSideRight -> <<Add32(b, a), b>>
      [] channels = ChannelsMidSide ->
            LET m == Or32(Mul32(2, a), b % 2)
            IN  <<Quo2(Add32(m, b)), Quo2(Sub32(m, b))>>
      [] OTHER -> <<a, b>>

\* Frame.Decorrelate on the sample buffers of subframes 0 and 1.
Decorrelate(channels, sub) ==
    [c \in {0, 1} |->
        [i \in 1 .. Len(sub[0]) |-> DecorrelatePair(channels, sub[0][i], sub[1][i])[c + 1]]]

\* Frame.Correlate on the sample buffers of subframes 0 and 1.
Correlate(channels, sub) ==
    [c \in {0, 1} |->
        [i \in 1 .. Len(sub[1]) |-> CorrelatePair(channels, sub[0][i], sub[1][i])[c + 1]]]

\* The samples tried: CorrSpan values around zero, at both ends of int32 and
\* around +-2^30, where twice the mid channel leaves int32.
CorrSpan == 1

CorrSamples ==
    (0 - CorrSpan .. CorrSpan)
    \cup {MinInt32 + k : k \in 0 .. CorrSpan - 1}
    \cup {MaxInt32 - k : k \in 0 .. CorrSpan - 1}
    \cup {Pow2(30) - k : k \in 0 .. CorrSpan}
    \cup {0 - Pow2(30) - k : k \in 0 .. CorrSpan}

\* The longest sample buffer tried.
CorrLen == 2

InitCorrelate ==
    /\ stream = Idle
    /\ ret = Idle
    /\ \E channels \in {ChannelsLR, ChannelsLeftSide, ChannelsSideRight, ChannelsMidSide},
          n \in 1 .. CorrLen :
         \E A \in [1 .. n -> CorrSamples], B \in [1 .. n -> CorrSamples] :
            fx = [op |-> "correlate", Channels |-> channels,
                  in |-> [c \in {0, 1} |-> IF c = 0 THEN A ELSE B],
                  Subframes |-> [c \in {0, 1} |-> IF c = 0 THEN A ELSE B],
                  pc |-> 0]

\* frame.Decorrelate()
FrameDecorrelate ==
    /\ fx.op = "correlate" /\ fx.pc = 0
    /\ fx' = [fx EXCEPT !.Subframes = Decorrelate(fx.Channels, fx.Subframes), !.pc = 1]
    /\ UNCHANGED <<stream, ret>>

\* frame.Correlate()
FrameCorrelate ==
    /\ fx.op = "correlate" /\ fx.pc = 1
    /\ fx' = [fx EXCEPT !.Subframes = Correlate(fx.Channels, fx.Subframes), !.pc = 2]
    /\ UNCHANGED <<stream, ret>>

NextCorrelate == FrameDecorrelate \/ FrameCorrelate

SpecCorrelate == InitCorrelate /\ [][NextCorrelate]_vars

\* C6: for LeftSide, SideRight and MidSide and any two equal-length int32
\* buffers, Decorrelate followed by Correlate leaves both buffers as they were.
CorrelateInverse ==
    (fx.op = "correlate" /\ fx.pc = 2
        /\ fx.Channels \in {ChannelsLeftSide, ChannelsSideRight, ChannelsMidSide}) =>
        fx.Subframes = fx.in

----------------------------------------------------------------------------
(* frame, flac: the LPC recurrence of Fixed and FIR subframes *)

\* FixedCoeffs maps from prediction order to the LPC coefficients used in
\* fixed encoding; index 0 is the zero value of the array, a nil slice.
FixedCoeffs ==
    [order \in 0 .. 4 |->
        CASE order = 1 -> <<1>>
          [] order = 2 -> <<2, -1>>
          [] order = 3 -> <<3, -3, 1>>
          [] order = 4 -> <<4, -6, 4, -1>>
          [] OTHER -> <<>>]

\* The int64 sum of coeffs[j] * samples[i-j-1] over the coefficients (i is the
\* zero-based index of the code), from coefficient j on.
RECURSIVE LPCSum(_, _, _, _)
LPCSum(samples, coeffs, i, j) ==
    IF j >= Len(coeffs) THEN Wide(0)
    ELSE WAdd(WMul(coeffs[j + 1], samples[(i - j - 1) + 1]),
              LPCSum(samples, coeffs, i, j + 1))

\* int32(sample >> uint(shift)): the prediction of sample i.
LPCPredict(samples, coeffs, shift, i) ==
    ToInt32(WShr(LPCSum(samples, coeffs, i, 0), shift))

\* The loop of decodeLPC from index i on: samples[i] += prediction.
RECURSIVE DecodeLPCLoop(_, _, _, _, _)
DecodeLPCLoop(samples, coeffs, shift, i, n) ==
    IF i >= n THEN samples
    ELSE DecodeLPCLoop(
             [samples EXCEPT ![i + 1] = Add32(@, LPCPredict(samples, coeffs, shift, i))],
             coeffs, shift, i + 1, n)

\* A broken decoder: the prediction is not shifted.
DecodeLPCNoShift(subframe, coeffs, shift) ==
    [err |-> Nil,
     Samples |-> DecodeLPCLoop(subframe.Samples, coeffs, 0, subframe.Order, subframe.NSamples)]

\* Subframe.decodeLPC: the error, and the samples of the subframe after it.
decodeLPC(subframe, coeffs, shift) ==
    IF Len(coeffs) # subframe.Order
    THEN [err |-> "order differs from number of coefficients", Samples |-> subframe.Samples]
    ELSE IF shift < 0
    THEN [err |-> "invalid negative shift", Samples |-> subframe.Samples]
    ELSE IF subframe.NSamples # Len(subframe.Samples)
    THEN [err |-> "sample count mismatch", Samples |-> subframe.Samples]
    ELSE [err |-> Nil,
          Samples |-> DecodeLPCLoop(subframe.Samples, coeffs, shift,
                                    subframe.Order, subframe.NSamples)]

\* getLPCResiduals: the error and the residuals of samples Order .. NSamples-1.
getLPCResiduals(subframe, coeffs, shift) ==
    IF Len(coeffs) # subframe.Order
    THEN [err |-> "order differs from number of coefficients", residuals |-> <<>>]
    ELSE IF shift < 0
    THEN [err |-> "invalid negative shift", residuals |-> <<>>]
    ELSE IF subframe.NSamples # Len(subframe.Samples)
    THEN [err |-> "sample count mismatch", residuals |-> <<>>]
    ELSE [err |-> Nil,
          residuals |->
            [k \in 1 .. subframe.NSamples - subframe.Order |->
                Sub32(subframe.Samples[subframe.Order + k],
                      LPCPredict(subframe.Samples, coeffs, shift, subframe.Order + k - 1))]]

\* The samples tried: both ends of int32 and two small values.
LpcSamples == {MinInt32, -1, 2, MaxInt32}

\* The coefficients tried for FIR subframes; LpcCoeff is the largest.
LpcCoeff == 1000

LpcCoeffs == {0 - LpcCoeff, 1, 3}

\* The largest FIR order tried.
LpcOrder == 2

\* Shifts 0 .. LpcShift and 15, the largest a 5-bit signed field holds.
LpcShift == 1

LpcShifts == (0 .. LpcShift) \cup {15}

\* The largest number of samples after the warm-up samples.
LpcTail == 1

InitLPC ==
    /\ stream = Idle
    /\ ret = Idle
    /\ \/ \E order \in 0 .. 4, tail \in 1 .. LpcTail :
            \E samples \in [1 .. order + tail -> LpcSamples] :
                fx = [op |-> "lpc", Pred |-> "Fixed", Order |-> order,
                      coeffs |-> FixedCoeffs[order], shift |-> 0, in |-> samples,
                      residuals |-> Nil, out |-> Nil, pc |-> 0]
       \/ \E order \in 1 .. LpcOrder, tail \in 1 .. LpcTail, shift \in LpcShifts :
            \E coeffs \in [1 .. order -> LpcCoeffs],
               samples \in [1 .. order + tail -> LpcSamples] :
                fx = [op |-> "lpc", Pred |-> "FIR", Order |-> order,
                      coeffs |-> coeffs, shift |-> shift, in |-> samples,
                      residuals |-> Nil, out |-> Nil, pc |-> 0]

\* The encoder side: getLPCResiduals on the subframe that holds the samples.
LpcResiduals ==
    /\ fx.op = "lpc" /\ fx.pc = 0
    /\ fx' = [fx EXCEPT
                !.residuals = getLPCResiduals(
                    [Order |-> fx.Order, NSamples |-> Len(fx.in), Samples |-> fx.in],
                    fx.coeffs, fx.shift),
                !.pc = 1]
    /\ UNCHANGED <<stream, ret>>

\* The decoder side: the subframe holds the warm-up samples followed by the
\* residuals (decodeFixed, decodeFIR), and decodeLPC runs on it.
LpcDecode ==
    /\ fx.op = "lpc" /\ fx.pc = 1 /\ fx.residuals.err = Nil
    /\ fx' = [fx EXCEPT
                !.out = decodeLPC(
                    [Order |-> fx.Order, NSamples |-> Len(fx.in),
                     Samples |-> SubSeq(fx.in, 1, fx.Order) \o fx.residuals.residuals],
                    fx.coeffs, fx.shift),
                !.pc = 2]
    /\ UNCHANGED <<stream, ret>>

NextLPC == LpcResiduals \/ LpcDecode

SpecLPC == InitLPC /\ [][NextLPC]_vars

\* C7: for a subframe of order k, a coefficient vector of length k and a shift
\* >= 0, getLPCResiduals succeeds and decodeLPC on the k warm-up samples
\* followed by the residuals reproduces the original samples exactly.
LPCIdentity ==
    fx.op = "lpc" =>
        /\ fx.pc >= 1 =>
              /\ fx.residuals.err = Nil
              /\ Len(fx.residuals.residuals) = Len(fx.in) - fx.Order
        /\ fx.pc = 2 => fx.out.err = Nil /\ fx.out.Samples = fx.in

\* The prediction of sample i as an int64, before the conversion to int32.
LPCWidePredict(samples, coeffs, shift, i) ==
    WShr(LPCSum(samples, coeffs, i, 0), shift)

\* A round trip is complete in which a 64-bit prediction did not fit in int32
\* and a residual differs from sample minus prediction taken as integers
\* (the int32 subtraction wrapped), with a shift above zero.
LPCWitness ==
    /\ fx.op = "lpc" /\ fx.pc = 2 /\ fx.shift > 0
    /\ \E i \in fx.Order .. Len(fx.in) - 1 :
          LET p == LPCWidePredict(fx.in, fx.coeffs, fx.shift, i)
          IN  /\ p.h >= Half \div 2 \/ p.h < 0 - (Half \div 2)
              /\ WSub(Wide(fx.in[i + 1]), p) # Wide(fx.residuals.residuals[i + 1 - fx.Order])

----------------------------------------------------------------------------
(* frame, flac: the code tables of the frame header *)

\* A suffix field of the frame header: its width in bits and its value.
NoSuffix == <<0, 0>>

\* Frame.parseSampleRate: the sample rate for the 4-bit code and the suffix
\* field read from the end of the header.
parseSampleRate(sampleRate, suffix) ==
    CASE sampleRate = 0 -> [err |-> Nil, SampleRate |-> 0]
      [] sampleRate = 1 -> [err |-> Nil, SampleRate |-> 88200]
      [] sampleRate = 2 -> [err |-> Nil, SampleRate |-> 176400]
      [] sampleRate = 3 -> [err |-> Nil, SampleRate |-> 192000]
      [] sampleRate = 4 -> [err |-> Nil, SampleRate |-> 8000]
      [] sampleRate = 5 -> [err |-> Nil, SampleRate |-> 16000]
      [] sampleRate = 6 -> [err |-> Nil, SampleRate |-> 22050]
      [] sampleRate = 7 -> [err |-> Nil, SampleRate |-> 24000]
      [] sampleRate = 8 -> [err |-> Nil, SampleRate |-> 32000]
      [] sampleRate = 9 -> [err |-> Nil, SampleRate |-> 44100]
      [] sampleRate = 10 -> [err |-> Nil, SampleRate |-> 48000]
      [] sampleRate = 11 -> [err |-> Nil, SampleRate |-> 96000]
      [] sampleRate = 12 -> [err |-> Nil, SampleRate |-> suffix[2] * 1000]
      [] sampleRate = 13 -> [err |-> Nil, SampleRate |-> suffix[2]]
      [] sampleRate = 14 -> [err |-> Nil, SampleRate |-> suffix[2] * 10]
      [] OTHER -> [err |-> "invalid sample rate bit pattern", SampleRate |-> 0]

\* The width of the suffix field that follows a sample rate code.
SampleRateSuffixBits(code) ==
    CASE code = 12 -> 8 [] code = 13 -> 16 [] code = 14 -> 16 [] OTHER -> 0

\* Frame.parseChannels: codes 1011 to 1111 are reserved.
parseChannels(x) ==
    IF x >= 11 THEN [err |-> "reserved channels bit pattern", Channels |-> 0]
    ELSE [err |-> Nil, Channels |-> x]

\* encodeFrameHeaderSampleRate: the 4-bit code written, and the suffix bits and
\* their count to write at the end of the header.
encodeFrameHeaderSampleRate(sampleRate) ==
    LET direct(b) == [err |-> Nil, bits |-> b, sampleRateSuffixBits |-> 0,
                      nsampleRateSuffixBits |-> 0]
    IN  CASE sampleRate = 0 -> direct(0)
          [] sampleRate = 88200 -> direct(1)
          [] sampleRate = 176400 -> direct(2)
          [] sampleRate = 192000 -> direct(3)
          [] sampleRate = 8000 -> direct(4)
          [] sampleRate = 16000 -> direct(5)
          [] sampleRate = 22050 -> direct(6)
          [] sampleRate = 24000 -> direct(7)
          [] sampleRate = 32000 -> direct(8)
          [] sampleRate = 44100 -> direct(9)
          [] sampleRate = 48000 -> direct(10)
          [] sampleRate = 96000 -> direct(11)
          [] OTHER ->
                IF sampleRate <= 255000 /\ sampleRate % 1000 = 0
                THEN [err |-> Nil, bits |-> 12,
                      sampleRateSuffixBits |-> sampleRate \div 1000,
                      nsampleRateSuffixBits |-> 8]
                ELSE IF sampleRate <= 65535
                THEN [err |-> Nil, bits |-> 13, sampleRateSuffixBits |-> sampleRate,
                      nsampleRateSuffixBits |-> 16]
                ELSE IF sampleRate <= 655350 /\ sampleRate % 10 = 0
                THEN [err |-> Nil, bits |-> 14,
                      sampleRateSuffixBits |-> sampleRate \div 10,
                      nsampleRateSuffixBits |-> 16]
                ELSE [err |-> "unable to encode sample rate", bits |-> 0,
                      sampleRateSuffixBits |-> 0, nsampleRateSuffixBits |-> 0]

\* encodeFrameHeaderChannels: the 4-bit code written.
encodeFrameHeaderChannels(channels) ==
    CASE channels \in 0 .. 7 -> [err |-> Nil, bits |-> (channels + 1) - 1]
      [] channels = ChannelsLeftSide -> [err |-> Nil, bits |-> 8]
      [] channels = ChannelsSideRight -> [err |-> Nil, bits |-> 9]
      [] channels = ChannelsMidSide -> [err |-> Nil, bits |-> 10]
      [] OTHER -> [err |-> "channel assignment not yet implemented", bits |-> 0]

\* The header fields parsed from the codes and suffix fields of a header.
ParseHeaderFields(h) ==
    LET sr == parseSampleRate(h.sampleRate, h.sampleRateSuffix)
        ch == parseChannels(h.channels)
    IN  [err |-> IF sr.err # Nil THEN sr.err ELSE ch.err,
         SampleRate |-> sr.SampleRate, Channels |-> ch.Channels]

\* The codes and suffix fields written for the header fields: the sample rate
\* suffix holds the bits encodeFrameHeaderSampleRate returned.
EncodeHeaderFields(hdr) ==
    LET sr == encodeFrameHeaderSampleRate(hdr.SampleRate)
        ch == encodeFrameHeaderChannels(hdr.Channels)
    IN  [err |-> IF sr.err # Nil THEN sr.err ELSE ch.err,
         sampleRate |-> sr.bits,
         channels |-> ch.bits,
         sampleRateSuffix |->
            IF sr.nsampleRateSuffixBits = 0 THEN NoSuffix
            ELSE <<sr.nsampleRateSuffixBits, sr.sampleRateSuffixBits>>]

\* The suffix values tried: the first HdrSpan + 1 and the last HdrSpan + 1
\* values of the field, and values that name a rate of the direct table, or
\* another rate, in the field's unit.
HdrSpan == 3

HdrSuffixes(nbits, table) ==
    {<<nbits, v>> : v \in (0 .. HdrSpan) \cup (Pow2(nbits) - 1 - HdrSpan .. Pow2(nbits) - 1)
                          \cup {t \in table : t < Pow2(nbits)}}

HdrSampleRateSuffixes(code) ==
    CASE code = 12 -> HdrSuffixes(8, {8, 16, 24, 32, 48, 96, 192, 39})
      [] code = 13 -> HdrSuffixes(16, {8000, 22050, 44100, 48000, 35467, 39000})
      [] code = 14 -> HdrSuffixes(16, {800, 4410, 9600, 17640, 19200, 13456, 3900})
      [] OTHER -> {NoSuffix}

InitHeader ==
    /\ stream = Idle
    /\ ret = Idle
    /\ \E sr \in 0 .. 15, ch \in 0 .. 15 :
         \E srx \in HdrSampleRateSuffixes(sr) :
            fx = [op |-> "header",
                  in |-> [sampleRate |-> sr, channels |-> ch,
                          sampleRateSuffix |-> srx],
                  hdr |-> Nil, out |-> Nil, pc |-> 0]

\* The decoder reads the codes and suffix fields of a frame header.
HeaderParse ==
    /\ fx.op = "header" /\ fx.pc = 0
    /\ fx' = [fx EXCEPT !.hdr = ParseHeaderFields(fx.in), !.pc = 1]
    /\ UNCHANGED <<stream, ret>>

\* Encoder.WriteFrame writes the header of a frame that was parsed.
HeaderEncode ==
    /\ fx.op = "header" /\ fx.pc = 1 /\ fx.hdr.err = Nil
    /\ fx' = [fx EXCEPT !.out = EncodeHeaderFields(fx.hdr), !.pc = 2]
    /\ UNCHANGED <<stream, ret>>

NextHeader == HeaderParse \/ HeaderEncode

SpecHeader == InitHeader /\ [][NextHeader]_vars

\* C1: a frame header that parses without error is written back as the same
\* bits: the same sample rate and channel codes and the same suffix field,
\* whatever code form the input uses.
HeaderRoundTrip ==
    (fx.op = "header" /\ fx.pc = 2) =>
        /\ fx.out.err = Nil
        /\ [f \in DOMAIN fx.in |-> fx.out[f]] = fx.in

----------------------------------------------------------------------------
(* flac: Stream.Seek, Stream.makeSeekTable, Stream.searchFromStart *)

\* The error values of the package and of the readers.
ErrNoSeektable == "stream.searchFromStart: no seektable exists"
ErrNoSeeker == "stream.Seek: reader does not implement io.Seeker"
EOF == "EOF"
ErrChecksum == "frame.Frame.Parse: CRC-16 checksum mismatch"
ErrSeekRange == "unable to seek to sample number"
Panic == "panic: interface conversion: not io.ReadSeeker"

\* Frame.SampleNumber: the first sample number the frame reports.
SampleNumber(frame) ==
    IF frame.HasFixedBlockSize THEN frame.Num * frame.BlockSize ELSE frame.Num

\* The bytes a frame takes in the stream: its header and footer and its
\* samples. A frame with more samples is longer, so frame offsets differ from
\* sample numbers and from frame numbers.
FrameLen(frame) == 1 + frame.BlockSize

RECURSIVE SumBlockSize(_, _)
\* The number of samples in the first n frames.
SumBlockSize(frames, n) ==
    IF n = 0 THEN 0 ELSE SumBlockSize(frames, n - 1) + frames[n].BlockSize

RECURSIVE FrameOffset(_, _)
\* The offset of the header of frame i from the header of the first frame.
FrameOffset(frames, i) ==
    IF i <= 1 THEN 0 ELSE FrameOffset(frames, i - 1) + FrameLen(frames[i - 1])

\* The index of the frame whose header is at the read position pos, or 0.
FrameIndexAt(s, pos) ==
    IF \E i \in 1 .. Len(s.frames) : s.dataStart + FrameOffset(s.frames, i) = pos
    THEN CHOOSE i \in 1 .. Len(s.frames) : s.dataStart + FrameOffset(s.frames, i) = pos
    ELSE 0

\* frame.Parse(stream.r): the frame at the read position, which moves behind
\* the frame; io.EOF at the end of the stream; an error, after the frame was
\* read, when its CRC-16 does not match.
ParseFrame(s, r) ==
    LET i == FrameIndexAt(s, r.pos)
    IN  IF i = 0 THEN [frame |-> <<>>, err |-> EOF, r |-> r]
        ELSE IF i = Len(s.frames) /\ s.corrupt
        THEN [frame |-> <<>>, err |-> ErrChecksum,
              r |-> [r EXCEPT !.pos = r.pos + FrameLen(s.frames[i])]]
        ELSE [frame |-> <<s.frames[i]>>, err |-> Nil,
              r |-> [r EXCEPT !.pos = r.pos + FrameLen(s.frames[i])]]

\* Stream.searchFromStart: the seek point before the first point that ends
\* at or after sampleNum; the first point if that is the first one.
RECURSIVE searchLoop(_, _, _, _)
searchLoop(points, i, prev, sampleNum) ==
    IF i > Len(points) THEN prev
    ELSE IF points[i].SampleNum + points[i].NSamples >= sampleNum THEN prev
    ELSE searchLoop(points, i + 1, points[i], sampleNum)

searchFromStart(seekTable, sampleNum) ==
    IF Len(seekTable.Points) = 0 THEN [point |-> Nil, err |-> ErrNoSeektable]
    ELSE [point |-> searchLoop(seekTable.Points, 1, seekTable.Points[1], sampleNum),
          err |-> Nil]

\* The loop of makeSeekTable: one point for each frame parsed, until
\* ParseNext fails; io.EOF ends the scan without an error.
RECURSIVE scanFrames(_, _, _, _)
scanFrames(s, r, sampleNum, points) ==
    LET off == r.pos
        f == ParseFrame(s, r)
    IN  IF f.err # Nil
        THEN [points |-> points, r |-> f.r, err |-> IF f.err = EOF THEN Nil ELSE f.err]
        ELSE scanFrames(s, f.r, sampleNum + f.frame[1].BlockSize,
                        Append(points, [SampleNum |-> sampleNum,
                                        Offset |-> off - s.dataStart,
                                        NSamples |-> f.frame[1].BlockSize]))

\* makeSeekTable that scans from the read position on.
makeSeekTableFromHere(s) ==
    IF ~s.r.seekable THEN [stream |-> s, err |-> ErrNoSeeker]
    ELSE LET pos == s.r.pos
             scan == scanFrames(s, s.r, 0, <<>>)
         IN  IF scan.err # Nil THEN [stream |-> [s EXCEPT !.r = scan.r], err |-> scan.err]
             ELSE [stream |-> [s EXCEPT !.seekTable = <<[Points |-> scan.points]>>,
                                        !.r = [scan.r EXCEPT !.pos = pos]],
                   err |-> Nil]

\* Stream.makeSeekTable: saves the read position, scans the frames from
\* dataStart, stores the table and restores the read position. An error of
\* the scan is returned at once.
makeSeekTable(s) ==
    IF ~s.r.seekable THEN [stream |-> s, err |-> ErrNoSeeker]
    ELSE LET pos == s.r.pos
             scan == scanFrames(s, [s.r EXCEPT !.pos = s.dataStart], 0, <<>>)
         IN  IF scan.err # Nil THEN [stream |-> [s EXCEPT !.r = scan.r], err |-> scan.err]
             ELSE [stream |-> [s EXCEPT !.seekTable = <<[Points |-> scan.points]>>,
                                        !.r = [scan.r EXCEPT !.pos = pos]],
                   err |-> Nil]

\* The frame is found, and the read position is left behind it.
seekFoundNoRestore(r, offset, frame) ==
    [n |-> SampleNumber(frame), err |-> Nil, r |-> r]

\* Seek, the frame is found: rs.Seek(offset, io.SeekStart) restores the read
\* position to the start of the frame, whose SampleNumber is returned.
seekFound(r, offset, frame) ==
    [n |-> SampleNumber(frame), err |-> Nil, r |-> [r EXCEPT !.pos = offset]]

\* The loop of Seek: parses frames until one ends behind sampleNum.
RECURSIVE seekLoop(_, _, _)
seekLoop(s, r, sampleNum) ==
    LET offset == r.pos
        f == ParseFrame(s, r)
    IN  IF f.err # Nil THEN [n |-> 0, err |-> f.err, r |-> f.r]
        ELSE IF SampleNumber(f.frame[1]) + f.frame[1].BlockSize > sampleNum
        THEN seekFound(f.r, offset, f.frame[1])
        ELSE seekLoop(s, f.r, sampleNum)

\* A nil pointer is the empty sequence, a pointer to v the sequence <<v>>.
\* Stream.Seek: the number returned, the error, the stream afterwards, and
\* whether this call made the seek table.
StreamSeek(s0, sampleNum) ==
    LET make == s0.seekTable = <<>> /\ s0.seekTableSize > 0
        made == IF make THEN makeSeekTable(s0) ELSE [stream |-> s0, err |-> Nil]
        s == made.stream
    IN  IF made.err # Nil
        THEN [n |-> 0, err |-> made.err, stream |-> s, built |-> FALSE]
        ELSE IF ~s.r.seekable
        THEN [n |-> 0, err |-> Panic, stream |-> s, built |-> make]
        ELSE IF s.Info.NSamples # 0 /\ sampleNum >= s.Info.NSamples
        THEN [n |-> 0, err |-> ErrSeekRange, stream |-> s, built |-> make]
        ELSE IF s.seekTable = <<>>
        THEN [n |-> 0, err |-> Panic, stream |-> s, built |-> make]
        ELSE LET found == searchFromStart(s.seekTable[1], sampleNum)
             IN  IF found.err # Nil
                 THEN [n |-> 0, err |-> found.err, stream |-> s, built |-> make]
                 ELSE LET res == seekLoop(s, [s.r EXCEPT !.pos = s.dataStart + found.point.Offset],
                                          sampleNum)
                      IN  [n |-> res.n, err |-> res.err,
                           stream |-> [s EXCEPT !.r = res.r], built |-> make]

\* The streams of the model: at most MaxFrames frames of at most MaxBlock
\* samples, the first frame header at offset DataStart.
MaxFrames == 2
MaxBlock == 2
DataStart == 5

\* The seekTableSize of a stream made by NewSeek.
SeekTableSize == 1

\* The frames of a fixed-block-size stream: frame numbers in the headers, the
\* last frame with last <= blockSize samples.
FixedFrames(n, blockSize, last) ==
    [i \in 1 .. n |-> [Num |-> i - 1, HasFixedBlockSize |-> TRUE,
                       BlockSize |-> IF i = n THEN last ELSE blockSize]]

\* The frames of a variable-block-size stream: sample numbers in the headers.
VariableFrames(sizes) ==
    LET fs == [i \in 1 .. Len(sizes) |-> [BlockSize |-> sizes[i]]]
    IN  [i \in 1 .. Len(sizes) |-> [Num |-> SumBlockSize(fs, i - 1),
                                    HasFixedBlockSize |-> FALSE,
                                    BlockSize |-> sizes[i]]]

StreamFrames ==
    {FixedFrames(n, b, l) : <<n, b, l>> \in
        {t \in (1 .. MaxFrames) \X (1 .. MaxBlock) \X (1 .. MaxBlock) : t[3] <= t[2]}}
    \cup UNION {{VariableFrames(sz) : sz \in [1 .. n -> 1 .. MaxBlock]} : n \in 1 .. MaxFrames}

\* The seek point of frame i of the stream.
FramePoint(frames, i) ==
    [SampleNum |-> SumBlockSize(frames, i - 1), Offset |-> FrameOffset(frames, i),
     NSamples |-> frames[i].BlockSize]

RECURSIVE PointsOf(_, _, _)
\* The seek points of the frames in the set keep, in stream order.
PointsOf(frames, keep, i) ==
    IF i > Len(frames) THEN <<>>
    ELSE IF i \in keep THEN <<FramePoint(frames, i)>> \o PointsOf(frames, keep, i + 1)
    ELSE PointsOf(frames, keep, i + 1)

\* The seek tables a SeekTable block of the stream can hold: points to some
\* of its frames, in increasing order; and no table.
SeekTables(frames) ==
    {<<>>} \cup {<<[Points |-> PointsOf(frames, keep, 1)]>> : keep \in SUBSET (1 .. Len(frames))}

\* A stream as NewSeek returns it: the reader seekable, the table of the
\* SeekTable block if there is one, the read position at the first frame.
\* A stream as Parse or New return it: the reader a bufio.Reader, no table.
InitSeek ==
    /\ fx = Idle
    /\ ret = Idle
    /\ \E frames \in StreamFrames, corrupt \in BOOLEAN, known \in BOOLEAN,
          seek \in BOOLEAN :
         \E table \in IF seek THEN SeekTables(frames) ELSE {<<>>} :
            stream = [Info |-> [NSamples |-> IF known
                                             THEN SumBlockSize(frames, Len(frames))
                                             ELSE 0],
                      seekTable |-> table,
                      seekTableSize |-> IF seek THEN SeekTableSize ELSE 0,
                      dataStart |-> DataStart,
                      r |-> [seekable |-> seek, pos |-> DataStart],
                      frames |-> frames,
                      corrupt |-> corrupt]

\* The call before the one that returns now, if it was a Seek that returned
\* no error: its argument and the number it returned. Kept in ret to tell
\* the calls that follow a successful Seek from the others.
LastSeek ==
    IF ret.op = "Seek" /\ ret.err = Nil THEN <<ret.arg, ret.n>> ELSE <<>>

\* Stream.Seek(sampleNum), for a sample number of the stream or behind it.
Seek ==
    /\ stream # Idle
    /\ \E sampleNum \in 0 .. SumBlockSize(stream.frames, Len(stream.frames)) + 1 :
         LET res == StreamSeek(stream, sampleNum)
         IN  /\ stream' = res.stream
             /\ ret' = [op |-> "Seek", arg |-> sampleNum, n |-> res.n, err |-> res.err,
                        frame |-> <<>>, built |-> res.built, after |-> LastSeek]
    /\ UNCHANGED fx

\* Stream.ParseNext.
ParseNext ==
    /\ stream # Idle
    /\ LET f == ParseFrame(stream, stream.r)
       IN  /\ stream' = [stream EXCEPT !.r = f.r]
           /\ ret' = [op |-> "ParseNext", arg |-> 0, n |-> 0, err |-> f.err,
                      frame |-> f.frame, built |-> FALSE, after |-> LastSeek]
    /\ UNCHANGED fx

NextSeek == Seek \/ ParseNext

SpecSeek == InitSeek /\ [][NextSeek]_vars

\* The index of the frame that holds sample sampleNum of the stream.
ContainingFrame(frames, sampleNum) ==
    CHOOSE i \in 1 .. Len(frames) :
        /\ SumBlockSize(frames, i - 1) <= sampleNum
        /\ sampleNum < SumBlockSize(frames, i)

\* C2: on a well-formed seekable stream with a seek table of at least one
\* point, from the SeekTable block or made on demand, Seek(t) with
\* t < NSamples returns without error a number s with
\* s <= t < s + BlockSize of the frame that holds sample t.
SeekCorrect ==
    (/\ ret.op = "Seek"
     /\ stream.r.seekable /\ ~stream.corrupt
     /\ stream.seekTable # <<>> /\ Len(stream.seekTable[1].Points) > 0
     /\ ret.arg < stream.Info.NSamples) =>
        /\ ret.err = Nil
        /\ ret.n <= ret.arg
        /\ ret.arg < ret.n + stream.frames[ContainingFrame(stream.frames, ret.arg)].BlockSize

SeekOutOfRangeKeepsPosition ==
    [][(/\ ret'.op = "Seek"
        /\ stream.r.seekable
        /\ stream.Info.NSamples > 0
        /\ ret'.arg >= stream.Info.NSamples) =>
          /\ ret'.n = 0
          /\ ret'.err # Nil
          /\ stream'.r.pos = stream.r.pos
          /\ ParseFrame(stream', stream'.r).frame = ParseFrame(stream, stream.r).frame]_vars

----------------------------------------------------------------------------
(* flac: the signature of the stream and the ID3v2 prelude *)

\* "fLaC" and "ID3" as bytes.
flacSignature == <<102, 76, 97, 67>>
id3Signature == <<73, 68, 51>>

ErrUnexpectedEOF == "unexpected EOF"
ErrSignature == "flac.parseStreamInfo: invalid FLAC signature"
ErrFirstBlock == "flac.parseStreamInfo: incorrect type of first metadata block"

Min(a, b) == IF a < b THEN a ELSE b

\* The bufio.Reader that Parse and New put around the input: data are the
\* bytes of the input, chunk the number of bytes one Read of the input
\* returns, c the bytes handed out and w the bytes taken from the input.

\* bufio.Reader.Read(p) with len(p) = n > 0: when the buffer is empty, one
\* Read of the input; then as many buffered bytes as fit, which may be
\* fewer than n.
BufRead(rd, n) ==
    LET w == IF rd.c = rd.w THEN Min(rd.w + rd.chunk, Len(rd.data)) ELSE rd.w
        m == Min(n, w - rd.c)
    IN  [rd |-> [rd EXCEPT !.w = w, !.c = rd.c + m],
         bytes |-> SubSeq(rd.data, rd.c + 1, rd.c + m),
         err |-> IF m = 0 THEN EOF ELSE Nil]

\* The reader after n more bytes were handed out by Reads that each fill
\* the empty buffer with one Read of the input: w is the first end of a
\* chunk at or behind c + n.
Advance(rd, n) ==
    LET c == rd.c + n
        k == (c - rd.w + rd.chunk - 1) \div rd.chunk
    IN  [rd EXCEPT !.c = c,
                   !.w = IF c <= rd.w THEN rd.w
                         ELSE Min(rd.w + k * rd.chunk, Len(rd.data))]

\* io.ReadFull: Reads until n bytes are there; io.EOF when none was read,
\* io.ErrUnexpectedEOF when the input ends after some.
ReadFull(rd, n) ==
    LET avail == Len(rd.data) - rd.c
    IN  IF avail >= n
        THEN [rd |-> Advance(rd, n), bytes |-> SubSeq(rd.data, rd.c + 1, rd.c + n),
              err |-> Nil]
        ELSE [rd |-> Advance(rd, avail),
              bytes |-> SubSeq(rd.data, rd.c + 1, Len(rd.data)),
              err |-> IF avail = 0 THEN EOF ELSE ErrUnexpectedEOF]

\* bufio.Reader.Discard(n): skips n bytes, filling the buffer as needed;
\* io.EOF when the input ends before.
Discard(rd, n) ==
    LET avail == Len(rd.data) - rd.c
    IN  IF avail >= n THEN [rd |-> Advance(rd, n), err |-> Nil]
        ELSE [rd |-> Advance(rd, avail), err |-> EOF]

\* int(b0)<<21 | int(b1)<<14 | int(b2)<<7 | int(b3)
SynchsafeSize(sizeBuf) ==
    BitOr(BitOr(sizeBuf[1] * Pow2(21), sizeBuf[2] * Pow2(14), 30),
          BitOr(sizeBuf[3] * Pow2(7), sizeBuf[4], 30), 30)

\* Stream.skipID3v2: bufio.NewReader(stream.r) is stream.r itself, which is
\* a bufio.Reader of the default size. Two bytes are discarded, one Read
\* fills sizeBuf, whose bytes that the Read did not deliver stay zero, and
\* size bytes are discarded.
skipID3v2(rd) ==
    LET d == Discard(rd, 2)
        x == BufRead(d.rd, 4)
        sizeBuf == [i \in 1 .. 4 |-> IF i <= Len(x.bytes) THEN x.bytes[i] ELSE 0]
    IN  IF d.err # Nil THEN [rd |-> d.rd, err |-> d.err]
        ELSE IF x.err # Nil THEN [rd |-> x.rd, err |-> x.err]
        ELSE Discard(x.rd, SynchsafeSize(sizeBuf))

\* meta.Parse for the first block: the block header, the body of Length
\* bytes; parseStreamInfo then requires the body to be a StreamInfo (type 0).
parseFirstBlock(rd) ==
    LET h == ReadFull(rd, 4)
        length == (h.bytes[2] * Pow2(8) + h.bytes[3]) * Pow2(8) + h.bytes[4]
        body == ReadFull(h.rd, length)
    IN  IF h.err # Nil THEN [rd |-> h.rd, err |-> h.err, IsLast |-> FALSE]
        ELSE IF body.err # Nil
        THEN [rd |-> body.rd, err |-> ErrUnexpectedEOF, IsLast |-> FALSE]
        ELSE IF h.bytes[1] % 128 # 0
        THEN [rd |-> body.rd, err |-> ErrFirstBlock, IsLast |-> h.bytes[1] >= 128]
        ELSE [rd |-> body.rd, err |-> Nil, IsLast |-> h.bytes[1] >= 128]

\* Stream.parseStreamInfo.
parseStreamInfo(rd) ==
    LET first == ReadFull(rd, 4)
        isID3 == SubSeq(first.bytes, 1, 3) = id3Signature
        skip == skipID3v2(first.rd)
        second == ReadFull(skip.rd, 4)
        buf == IF isID3 THEN second.bytes ELSE first.bytes
        r == IF isID3 THEN second.rd ELSE first.rd
    IN  IF first.err # Nil THEN [rd |-> first.rd, err |-> first.err, IsLast |-> FALSE]
        ELSE IF isID3 /\ skip.err # Nil
        THEN [rd |-> skip.rd, err |-> skip.err, IsLast |-> FALSE]
        ELSE IF isID3 /\ second.err # Nil
        THEN [rd |-> second.rd, err |-> second.err, IsLast |-> FALSE]
        ELSE IF buf # flacSignature THEN [rd |-> r, err |-> ErrSignature, IsLast |-> FALSE]
        ELSE parseFirstBlock(r)

\* The inputs: a signature or something else, an ID3v2 prelude or two, a
\* StreamInfo block that is the last metadata block; whole or cut short.
\* MaxChunk bounds the bytes one Read of the input returns; BufSize is the
\* Read of a file, which fills the buffer.
MaxChunk == 10
BufSize == 4096

Zeros(n) == [i \in 1 .. n |-> 0]

StreamInfoBlock == <<128, 0, 0, 34>> \o Zeros(34)

\* The size fields of the preludes: small sizes, sizes with the top bit of
\* a byte set, and a field that holds the start of a signature.
SizeBufs ==
    {<<0, 0, 0, 0>>, <<0, 0, 0, 1>>, <<0, 0, 0, 3>>, <<0, 0, 1, 0>>, <<0, 0, 1, 128>>,
     <<0, 0, 0, 129>>, <<0, 102, 76, 97>>, <<102, 76, 97, 67>>}

\* The lengths of the payload that follows the size field.
PayloadLens == {0, 1, 3, 128, 129}

ID3Prelude(sizeBuf, len) == id3Signature \o <<3, 0, 0>> \o sizeBuf \o Zeros(len)

SignatureInputs ==
    LET starts == {flacSignature, <<102, 76, 97, 68>>, <<70, 76, 65, 67>>, <<0, 0, 0, 0>>,
                   <<67>>, <<>>}
        fronts == starts
                  \cup {ID3Prelude(sb, n) \o st : sb \in SizeBufs, n \in PayloadLens, st \in starts}
                  \cup {ID3Prelude(sb, n) \o ID3Prelude(<<0, 0, 0, 0>>, 0) \o flacSignature :
                            sb \in SizeBufs, n \in PayloadLens}
    IN  {f \o StreamInfoBlock : f \in fronts} \cup {SubSeq(f, 1, Len(f) - 1) : f \in fronts \ {<<>>}}

InitSignature ==
    /\ stream = Idle
    /\ ret = Idle
    /\ \E data \in SignatureInputs, chunk \in (1 .. MaxChunk) \cup {BufSize} :
          fx = [op |-> "open", data |-> data, chunk |-> chunk]

\* flac.Parse: the signature and the StreamInfo block, then the other
\* metadata blocks until the last one; in the inputs the StreamInfo block is
\* the last one.
Parse ==
    /\ fx.op = "open" /\ ret = Idle
    /\ LET br == [data |-> fx.data, chunk |-> fx.chunk, c |-> 0, w |-> 0]
           block == parseStreamInfo(br)
       IN  ret' = [op |-> "Parse", err |-> block.err, read |-> block.rd.c,
                   IsLast |-> block.IsLast]
    /\ UNCHANGED <<stream, fx>>

\* flac.New: the signature and the StreamInfo block, the other metadata
\* blocks are skipped.
New ==
    /\ fx.op = "open" /\ ret = Idle
    /\ LET br == [data |-> fx.data, chunk |-> fx.chunk, c |-> 0, w |-> 0]
           block == parseStreamInfo(br)
       IN  ret' = [op |-> "New", err |-> block.err, read |-> block.rd.c,
                   IsLast |-> block.IsLast]
    /\ UNCHANGED <<stream, fx>>

NextSignature == Parse \/ New

SpecSignature == InitSignature /\ [][NextSignature]_vars

\* The input starts with "fLaC", or with "ID3" and has "fLaC" behind the 10
\* bytes of the ID3v2 header and the payload of the size the header gives.
HasSignature(data) ==
    \/ Len(data) >= 4 /\ SubSeq(data, 1, 4) = flacSignature
    \/ /\ Len(data) >= 10
       /\ SubSeq(data, 1, 3) = id3Signature
       /\ LET size == SynchsafeSize(SubSeq(data, 7, 10))
          IN  /\ Len(data) >= 10 + size + 4
              /\ SubSeq(data, 10 + size + 1, 10 + size + 4) = flacSignature

\* C5: Parse and New return an error unless the input starts with "fLaC", or
\* starts with "ID3" and has "fLaC" right behind one ID3v2 header of 10
\* bytes and its payload of (b0<<21)|(b1<<14)|(b2<<7)|b3 bytes.
SignatureRequired ==
    (ret.op \in {"Parse", "New"} /\ ret.err = Nil) => HasSignature(fx.data)

----------------------------------------------------------------------------
(* frame: signExtend *)

\* Bit k of the pair w.
WBit(w, k) ==
    IF k < 16 THEN (w.l \div Pow2(k)) % 2 ELSE (w.h \div Pow2(k - 16)) % 2

\* 1 << n as a pair.
WPow2(n) == IF n < 16 THEN [h |-> 0, l |-> Pow2(n)] ELSE [h |-> Pow2(n - 16), l |-> 0]

\* v | w on pairs, half by half.
WOr(v, w) == [h |-> BitOr(v.h, w.h, 16), l |-> BitOr(v.l, w.l, 16)]

\* The low 32 bits of ^uint64(0) << n, for n in 1 .. 32.
OnesFrom(n) ==
    IF n < 16 THEN [h |-> Half - 1, l |-> Half - Pow2(n)]
    ELSE [h |-> Half - Pow2(n - 16), l |-> 0]

\* signExtend with the test of the sign bit left out.
signExtendNoSign(x, n) == ToInt32(x)

\* signExtend(x, n): x is a pair below 2^32, the result an int32.
signExtend(x, n) ==
    IF WBit(x, n - 1) # 0 THEN ToInt32(WOr(x, OnesFrom(n))) ELSE ToInt32(x)

\* The n-bit patterns tried for each width n: the SxSpan + 1 lowest, the
\* SxSpan + 1 highest, and those within SxSpan of the sign bit.
SxSpan == 2
MaxWidth == 32

SxPatterns(n) ==
    LET top == WSub(WPow2(n), WNat(1))
        mid == WPow2(n - 1)
        cand == {WNat(d) : d \in 0 .. SxSpan}
                \cup {WSub(top, WNat(d)) : d \in 0 .. SxSpan}
                \cup {WSub(mid, WNat(d)) : d \in 0 .. SxSpan}
                \cup {WAdd(mid, WNat(d)) : d \in 0 .. SxSpan}
    IN  {x \in cand : x.h >= 0 /\ WLe(x, top)}

InitSignExtend ==
    /\ stream = Idle
    /\ ret = Idle
    /\ \E n \in 1 .. MaxWidth : \E x \in SxPatterns(n) :
          fx = [op |-> "signExtend", n |-> n, x |-> x, pc |-> 0, out |-> 0]

\* The decoder sign-extends the n bits it read.
SignExtendCall ==
    /\ fx.op = "signExtend" /\ fx.pc = 0
    /\ fx' = [fx EXCEPT !.out = signExtend(fx.x, fx.n), !.pc = 1]
    /\ UNCHANGED <<stream, ret>>

NextSignExtend == SignExtendCall

SpecSignExtend == InitSignExtend /\ [][NextSignExtend]_vars

\* The two's-complement value of the n-bit pattern x: x when bit n-1 is
\* clear, x - 2^n when it is set, computed as -(2^n - x).
TwosComplement(x, n) ==
    IF WLe(WPow2(n - 1), x)
    THEN LET d == WSub(WPow2(n), x) IN (0 - d.h) * Half - d.l
    ELSE x.h * Half + x.l

\* C11: for every width n in 1 .. 32 and every x below 2^n, signExtend(x, n)
\* is the two's-complement value of the n-bit pattern x.
SignExtendLaw ==
    (fx.op = "signExtend" /\ fx.pc = 1) => fx.out = TwosComplement(fx.x, fx.n)

\* A negative value of a pattern of the full width was produced.
SignExtendWitness ==
    /\ fx.op = "signExtend" /\ fx.pc = 1
    /\ fx.n = MaxWidth
    /\ fx.out < 0

(***************************************************************************)
(* frame: CRC-16 of a frame (Frame.Parse, hashutil/crc16).                 *)
(* A frame is its header bytes, the bytes of its subframes (padding to the *)
(* byte boundary included) and what follows them in the stream.            *)
(***************************************************************************)
\* The IBM polynomial x^16 + x^15 + x^2 + x^0.
IBM == 32773

\* One step of makeTable's inner loop.
crcStep(crc, poly) ==
    IF BitAnd(crc, Pow2(15), 16) # 0
    THEN BitXor((crc * 2) % Half, poly, 16)
    ELSE (crc * 2) % Half

RECURSIVE crcSteps(_, _, _)
crcSteps(crc, poly, j) ==
    IF j = 0 THEN crc ELSE crcSteps(crcStep(crc, poly), poly, j - 1)

makeTable(poly) == [i \in 0 .. 255 |-> crcSteps(i * 256, poly, 8)]

IBMTable == makeTable(IBM)

\* Update that leaves the bytes of p out of the checksum.
RECURSIVE UpdateNoData(_, _, _)
UpdateNoData(crc, table, p) ==
    IF p = <<>> THEN crc
    ELSE UpdateNoData(BitXor((crc * 256) % Half, table[crc \div 256], 16),
                      table, Tail(p))

RECURSIVE Update(_, _, _)
Update(crc, table, p) ==
    IF p = <<>> THEN crc
    ELSE Update(BitXor((crc * 256) % Half,
                       table[BitXor(crc \div 256, Head(p), 8)], 16),
                table, Tail(p))

ErrSubframe == "frame.Frame.parseSubframe: invalid subframe"

\* frame.New: the header is read through the hash reader hr, so its bytes
\* are in the CRC-16 digest when Parse starts.
FrameNew(f) == [f EXCEPT !.crc = Update(0, IBMTable, f.hdr), !.pc = 1]

\* Frame.Parse: the subframes are read through hr, the trailer from r.
FrameParse(f) ==
    IF f.malformed
    THEN [f EXCEPT !.err = ErrSubframe, !.pc = 2]
    ELSE LET crc == Update(f.crc, IBMTable, f.body) IN
         IF Len(f.rest) < 2
         THEN [f EXCEPT !.crc = crc, !.err = ErrUnexpectedEOF, !.pc = 2]
         ELSE LET want == f.rest[1] * 256 + f.rest[2] IN
              [f EXCEPT !.crc = crc, !.pc = 2,
                        !.err = IF crc # want THEN ErrChecksum ELSE Nil]

FrameHdrLen == 2
FrameBodyLen == 2
FrameBytes == {0, 1, 128, 255}

BytesUpTo(n) == UNION {[1 .. k -> FrameBytes] : k \in 0 .. n}

\* CRC-16 by long division of the message, one bit at a time.
RECURSIVE CRC16Bits(_, _, _)
CRC16Bits(crc, byte, k) ==
    IF k = 0 THEN crc
    ELSE LET bit == (byte \div Pow2(k - 1)) % 2
             top == crc \div Pow2(15)
             sh  == (crc * 2) % Half
         IN CRC16Bits(IF top # bit THEN BitXor(sh, IBM, 16) ELSE sh, byte, k - 1)

RECURSIVE CRC16(_, _)
CRC16(crc, data) ==
    IF data = <<>> THEN crc
    ELSE CRC16(CRC16Bits(crc, Head(data), 8), Tail(data))

BigEndian16(v) == <<v \div 256, v % 256>>

\* What may follow the subframes: the right trailer, wrong ones (off by one,
\* bytes swapped, the checksum of the subframes alone, zero), cut ones.
Trailers(hdr, body) ==
    LET c == CRC16(0, hdr \o body) IN
    {BigEndian16(c), BigEndian16((c + 1) % Half), <<c % 256, c \div 256>>,
     BigEndian16(CRC16(0, body)), <<0, 0>>,
     <<c \div 256>>, <<>>, BigEndian16(c) \o <<255>>}

InitFrameCRC ==
    /\ stream = Idle
    /\ ret = Idle
    /\ \E hdr \in [1 .. FrameHdrLen -> FrameBytes], body \in BytesUpTo(FrameBodyLen),
          malformed \in BOOLEAN :
         \E rest \in Trailers(hdr, body) :
            fx = [op |-> "frame", hdr |-> hdr, body |-> body, rest |-> rest,
                  malformed |-> malformed, crc |-> 0, err |-> Nil, pc |-> 0]

NewFrame ==
    /\ fx.op = "frame" /\ fx.pc = 0
    /\ fx' = FrameNew(fx)
    /\ UNCHANGED <<stream, ret>>

ParseFrameBody ==
    /\ fx.op = "frame" /\ fx.pc = 1
    /\ fx' = FrameParse(fx)
    /\ UNCHANGED <<stream, ret>>

NextFrameCRC == NewFrame \/ ParseFrameBody

SpecFrameCRC == InitFrameCRC /\ [][NextFrameCRC]_vars

\* C12: Frame.Parse succeeds only if the big-endian trailer equals the CRC-16
\* (polynomial 0x8005, initial value 0) of the header and subframe bytes, and
\* a trailer that differs gives the checksum-mismatch error.
FrameCRCClosure ==
    (fx.op = "frame" /\ fx.pc = 2) =>
        /\ fx.err = Nil =>
              /\ Len(fx.rest) >= 2
              /\ SubSeq(fx.rest, 1, 2) = BigEndian16(CRC16(0, fx.hdr \o fx.body))
        /\ (~fx.malformed /\ Len(fx.rest) >= 2
              /\ SubSeq(fx.rest, 1, 2) # BigEndian16(CRC16(0, fx.hdr \o fx.body)))
              => fx.err = ErrChecksum

\* A frame with subframe bytes and a nonzero checksum was accepted.
FrameCRCWitness ==
    /\ fx.op = "frame" /\ fx.pc = 2
    /\ fx.err = Nil
    /\ fx.body # <<>>
    /\ fx.crc # 0

(***************************************************************************)
(* frame: Frame.Hash.  The running MD5 is modelled by the bytes written    *)
(* to it.                                                                  *)
(***************************************************************************)
\* The bits-per-sample code of a frame header; 000 leaves BitsPerSample 0,
\* "get sample size from StreamInfo".
parseBitsPerSample(code) ==
    CASE code = 0 -> 0
      [] code = 1 -> 8
      [] code = 2 -> 12
      [] code = 4 -> 16
      [] code = 5 -> 20
      [] code = 6 -> 24

\* uint8(sample >> (8 * k)) of an int32 sample.
SampleByte(sample, k) == (sample \div Pow2(8 * k)) % 256

\* The bytes Hash writes for one sample.
HashSample(sample, bps) ==
    CASE 1 <= bps /\ bps <= 8 -> <<SampleByte(sample, 0)>>
      [] 9 <= bps /\ bps <= 16 -> <<SampleByte(sample, 0), SampleByte(sample, 1)>>
      [] 17 <= bps /\ bps <= 24 ->
            <<SampleByte(sample, 0), SampleByte(sample, 1), SampleByte(sample, 2)>>
      [] OTHER -> <<>>

\* The inner loop of Hash: the subframes from channel c on, at sample i.
RECURSIVE HashChannelsFrom(_, _, _)
HashChannelsFrom(frame, i, c) ==
    IF c > Len(frame.Subframes) THEN <<>>
    ELSE HashSample(frame.Subframes[c][i], frame.BitsPerSample)
         \o HashChannelsFrom(frame, i, c + 1)

\* The outer loop of Hash: the samples from index i on.
RECURSIVE HashFrom(_, _)
HashFrom(frame, i) ==
    IF i > frame.BlockSize THEN <<>>
    ELSE HashChannelsFrom(frame, i, 1) \o HashFrom(frame, i + 1)

FrameHash(frame, md5sum) == md5sum \o HashFrom(frame, 1)

HashBlock == 2
HashChannels == 2
StreamSampleSizes == {8, 12, 16, 20, 24}
SampleCodes == {0, 1, 2, 4, 5, 6}

\* A few samples of the given size: the extremes, -1, 0 and a middle value.
HashSamples(bps) ==
    {0 - Pow2(bps - 1), 0 - 1, 0, Pow2(bps - 1) - 1, Pow2(bps - 2) + 3}

InitHash ==
    /\ stream = Idle
    /\ ret = Idle
    /\ \E bps \in StreamSampleSizes, code \in SampleCodes,
          n \in 1 .. HashBlock, ch \in 1 .. HashChannels :
         /\ parseBitsPerSample(code) \in {0, bps}
         /\ \E subframes \in [1 .. ch -> [1 .. n -> HashSamples(bps)]] :
               fx = [op |-> "hash", bps |-> bps,
                     frame |-> [BlockSize |-> n,
                                BitsPerSample |-> parseBitsPerSample(code),
                                Subframes |-> subframes],
                     md5 |-> <<>>, pc |-> 0]

Hash ==
    /\ fx.op = "hash" /\ fx.pc = 0
    /\ fx' = [fx EXCEPT !.md5 = FrameHash(fx.frame, fx.md5), !.pc = 1]
    /\ UNCHANGED <<stream, ret>>

NextHash == Hash

SpecHash == InitHash /\ [][NextHash]_vars

\* ceil(bps / 8).
ByteWidth(bps) == (bps + 7) \div 8

\* The low w bytes of the two's-complement form of v, least significant first.
LittleEndian(v, w) == [k \in 1 .. w |-> ((v + Pow2(24)) \div Pow2(8 * (k - 1))) % 256]

\* The samples of the frame, interleaved by channel, each as ByteWidth(bps)
\* little-endian bytes.
Interleaved(frame, bps) ==
    [j \in 1 .. frame.BlockSize * Len(frame.Subframes) * ByteWidth(bps) |->
        LET w  == ByteWidth(bps)
            q  == (j - 1) \div w
            i  == (q \div Len(frame.Subframes)) + 1
            c  == (q % Len(frame.Subframes)) + 1
        IN LittleEndian(frame.Subframes[c][i], w)[((j - 1) % w) + 1]]

\* C13: Hash feeds the MD5, sample by sample and within a sample channel by
\* channel, the low ceil(bps/8) bytes of each sample, least significant first,
\* bps being the sample size of the stream; every frame, one whose header
\* takes the sample size from StreamInfo included, contributes
\* BlockSize x channels x ceil(bps/8) bytes.
HashFeedsEverySample ==
    (fx.op = "hash" /\ fx.pc = 1) =>
        /\ fx.md5 = Interleaved(fx.frame, fx.bps)
        /\ Len(fx.md5) = fx.frame.BlockSize * Len(fx.frame.Subframes) * ByteWidth(fx.bps)

(***************************************************************************)
(* flac: Parse and the metadata blocks.  The input after the signature is  *)
(* a sequence of blocks; a block is its header (Type, IsLast) and whether  *)
(* its body is whole.                                                      *)
(***************************************************************************)
ErrReservedType == "meta.Block.Parse: reserved block type"
ErrInvalidType == "meta.Block.Parse: invalid block type"

TypeStreamInfo == 0
TypePadding == 1
TypeSeekTable == 3
TypeReservedMin == 7
TypeInvalid == 127

\* meta.Parse at block i of the input: New reads the header, Block.Parse the
\* body by type.  The block comes back with the error, as in New.
metaParse(in, i) ==
    IF i > Len(in) THEN [block |-> <<>>, err |-> EOF, next |-> i]
    ELSE LET b == in[i]
             hdr == [Type |-> b.Type, IsLast |-> b.IsLast]
         IN  IF b.Type = TypeInvalid
             THEN [block |-> <<hdr>>, err |-> ErrInvalidType, next |-> i]
             ELSE IF b.Type >= TypeReservedMin
             THEN [block |-> <<hdr>>, err |-> ErrReservedType, next |-> i]
             ELSE IF ~b.whole
             THEN [block |-> <<hdr>>, err |-> ErrUnexpectedEOF, next |-> i + 1]
             ELSE [block |-> <<hdr>>, err |-> Nil, next |-> i + 1]

\* The loop of Parse that goes on after a block with IsLast set.
RECURSIVE parseRemainingPastLast(_, _, _, _)
parseRemainingPastLast(in, i, block, Blocks) ==
    IF i > Len(in) THEN [err |-> Nil, Blocks |-> Blocks, next |-> i]
    ELSE LET m == metaParse(in, i) IN
         IF m.err # Nil /\ m.err # ErrReservedType
         THEN [err |-> m.err, Blocks |-> Blocks, next |-> m.next]
         ELSE parseRemainingPastLast(in, i + 1, m.block[1], Append(Blocks, m.block[1]))

\* The loop of Parse: "for !block.IsLast".  Block.Skip of a reserved block
\* discards what there is of its body and reports no error.
RECURSIVE parseRemaining(_, _, _, _)
parseRemaining(in, i, block, Blocks) ==
    IF block.IsLast THEN [err |-> Nil, Blocks |-> Blocks, next |-> i]
    ELSE LET m == metaParse(in, i) IN
         IF m.err # Nil /\ m.err # ErrReservedType
         THEN [err |-> m.err, Blocks |-> Blocks, next |-> m.next]
         ELSE parseRemaining(in, i + 1, m.block[1], Append(Blocks, m.block[1]))

\* Parse, from the first block on: parseStreamInfo's meta.Parse and type
\* assertion, then the loop.
flacParse(in) ==
    LET m == metaParse(in, 1) IN
    IF m.err # Nil THEN [err |-> m.err, Blocks |-> <<>>, next |-> m.next]
    ELSE IF m.block[1].Type # TypeStreamInfo
    THEN [err |-> ErrFirstBlock, Blocks |-> <<>>, next |-> m.next]
    ELSE parseRemaining(in, 2, m.block[1], <<>>)

MaxBlocks == 3
BlockTypes == {TypeStreamInfo, TypePadding, TypeSeekTable, TypeReservedMin, TypeInvalid}
InputBlocks == [Type : BlockTypes, IsLast : BOOLEAN, whole : BOOLEAN]

InitBlocks ==
    /\ stream = Idle
    /\ fx = Idle
    /\ \E n \in 0 .. MaxBlocks : \E in \in [1 .. n -> InputBlocks] :
          ret = [op |-> "blocks", in |-> in, pc |-> 0,
                 err |-> Nil, Blocks |-> <<>>, next |-> 1]

ParseBlocks ==
    /\ ret.op = "blocks" /\ ret.pc = 0
    /\ LET p == flacParse(ret.in) IN
          ret' = [ret EXCEPT !.pc = 1, !.err = p.err, !.Blocks = p.Blocks,
                             !.next = p.next]
    /\ UNCHANGED <<stream, fx>>

NextBlocks == ParseBlocks

SpecBlocks == InitBlocks /\ [][NextBlocks]_vars

HeaderOf(b) == [Type |-> b.Type, IsLast |-> b.IsLast]

\* C14: Parse fails unless the first block is a StreamInfo; on success it has
\* read up to the first block with is_last set and no further, Blocks holds
\* the blocks after the StreamInfo in stream order, and IsLast is set on the
\* final element of Blocks and on no other.
BlocksUpToLast ==
    (ret.op = "blocks" /\ ret.pc = 1) =>
        /\ (ret.in = <<>> \/ ret.in[1].Type # TypeStreamInfo) => ret.err # Nil
        /\ ret.err = Nil =>
              /\ ret.next - 1 \in 1 .. Len(ret.in)
              /\ ret.in[ret.next - 1].IsLast
              /\ \A i \in 1 .. ret.next - 2 : ~ret.in[i].IsLast
              /\ ret.Blocks = [i \in 1 .. ret.next - 2 |-> HeaderOf(ret.in[i + 1])]
              /\ \A i \in 1 .. Len(ret.Blocks) :
                    ret.Blocks[i].IsLast <=> i = Len(ret.Blocks)

\* Parse succeeded with two blocks after the StreamInfo.
BlocksWitness ==
    /\ ret.op = "blocks" /\ ret.pc = 1
    /\ ret.err = Nil
    /\ Len(ret.Blocks) = 2
    /\ ret.Blocks[1].Type = TypeReservedMin

(***************************************************************************)
(* flac: the encoder (NewEncoder, Close, encode_meta.go).  The sink is the *)
(* sequence of bytes written so far; a write of the bit writer reaches the *)
(* sink.                                                                   *)
(***************************************************************************)
TypeApplication == 2

\* The big-endian bytes of v, n of them.
BigEndian(v, n) == [i \in 1 .. n |-> (v \div Pow2(8 * (n - i))) % 256]

\* encodeBlockHeader: 1 bit IsLast, 7 bits Type, 24 bits Length.
encodeBlockHeader(hdr) ==
    <<(IF hdr.IsLast THEN 128 ELSE 0) + hdr.Type>> \o BigEndian(hdr.Length, 3)

\* The 16 bytes of md5sum.Sum after n sample bytes were hashed.
MD5Sum(n) == [i \in 1 .. 16 |-> (7 * n + i) % 256]

\* encodeStreamInfo: the header, then 16+16+24+24+20+3+5+36 bits and the MD5.
\* NSamples stays below 2^31 here, so the top 4 of its 36 bits are 0.
encodeStreamInfo(info, last) ==
    encodeBlockHeader([IsLast |-> last, Type |-> TypeStreamInfo, Length |-> 34])
    \o BigEndian(info.BlockSizeMin, 2) \o BigEndian(info.BlockSizeMax, 2)
    \o BigEndian(info.FrameSizeMin, 3) \o BigEndian(info.FrameSizeMax, 3)
    \o BigEndian(((info.SampleRate * 8 + (info.NChannels - 1)) * 32
                  + (info.BitsPerSample - 1)) * 16, 4)
    \o BigEndian(info.NSamples, 4)
    \o info.MD5sum

\* encodePadding: the header and Length zero bytes.
encodePadding(length, last) ==
    encodeBlockHeader([IsLast |-> last, Type |-> TypePadding, Length |-> length])
    \o Zeros(length)

\* encodeEmptyBlock: a header of Length 0.
encodeEmptyBlock(typ, last) ==
    encodeBlockHeader([IsLast |-> last, Type |-> typ, Length |-> 0])

\* encodeBlock that writes the IsLast field of the block.
encodeBlockOwnLast(block, last) ==
    IF block.Type = TypePadding THEN encodePadding(block.Length, block.IsLast)
    ELSE encodeEmptyBlock(block.Type, block.IsLast)

\* encodeBlock: by type; a block of Length 0 is written as an empty block.
encodeBlock(block, last) ==
    IF block.Type = TypePadding THEN encodePadding(block.Length, last)
    ELSE encodeEmptyBlock(block.Type, last)

RECURSIVE encodeBlocksFrom(_, _)
encodeBlocksFrom(blocks, i) ==
    IF i > Len(blocks) THEN <<>>
    ELSE encodeBlock(blocks[i], i = Len(blocks)) \o encodeBlocksFrom(blocks, i + 1)

\* NewEncoder: the signature, the StreamInfo, the blocks.
NewEncoder(e) ==
    [e EXCEPT !.pc = 1,
              !.out = flacSignature
                      \o encodeStreamInfo(e.Info, Len(e.Blocks) = 0)
                      \o encodeBlocksFrom(e.Blocks, 1)]

\* Encoder.WriteFrame: the frame goes to the sink, its samples to the MD5,
\* and the observed block and frame sizes are kept.
WriteFrame(e, blockSize, frameSize) ==
    [e EXCEPT !.out = e.out \o [i \in 1 .. frameSize |-> 255],
              !.frames = e.frames + 1,
              !.nsamples = e.nsamples + blockSize,
              !.md5 = e.md5 + blockSize * e.Info.NChannels,
              !.blockSizeMin = IF e.frames = 0 THEN blockSize ELSE Min(e.blockSizeMin, blockSize),
              !.blockSizeMax = IF e.blockSizeMax < blockSize THEN blockSize ELSE e.blockSizeMax,
              !.frameSizeMin = IF e.frames = 0 THEN frameSize ELSE Min(e.frameSizeMin, frameSize),
              !.frameSizeMax = IF e.frameSizeMax < frameSize THEN frameSize ELSE e.frameSizeMax]

\* Writing bytes at offset off of the sink.
WriteAt(out, off, bytes) ==
    [i \in 1 .. (IF off + Len(bytes) > Len(out) THEN off + Len(bytes) ELSE Len(out)) |->
        IF i > off /\ i <= off + Len(bytes) THEN bytes[i - off] ELSE out[i]]

\* Close that writes the StreamInfo where the sink stands, without the Seek.
EncoderCloseNoSeek(e) ==
    [e EXCEPT !.pc = 2,
              !.out = IF e.seekable
                      THEN e.out \o encodeStreamInfo(e.Info, Len(e.Blocks) = 0)
                      ELSE e.out]

\* Encoder.Close.
EncoderClose(e) ==
    IF e.seekable
    THEN LET info == [e.Info EXCEPT !.BlockSizeMin = e.blockSizeMin,
                                    !.BlockSizeMax = e.blockSizeMax,
                                    !.FrameSizeMin = e.frameSizeMin,
                                    !.FrameSizeMax = e.frameSizeMax,
                                    !.NSamples = e.nsamples,
                                    !.MD5sum = MD5Sum(e.md5)]
         IN  [e EXCEPT !.pc = 2, !.Info = info,
                       !.out = WriteAt(e.out, Len(flacSignature),
                                       encodeStreamInfo(info, Len(e.Blocks) = 0))]
    ELSE [e EXCEPT !.pc = 2]

MaxEncBlocks == 2
MaxPadding == 1
MaxEncFrames == 2
MaxFrameSize == 2

EncBlocks ==
    [Type : {TypePadding}, Length : 0 .. MaxPadding, IsLast : BOOLEAN]
    \cup [Type : {TypeApplication, TypeSeekTable}, Length : {0}, IsLast : BOOLEAN]

\* The StreamInfo a caller passes: sizes left 0 or set to a guess.
EncInfos ==
    {[BlockSizeMin |-> b, BlockSizeMax |-> b, FrameSizeMin |-> 0, FrameSizeMax |-> 0,
      SampleRate |-> 44100, NChannels |-> ch, BitsPerSample |-> 16,
      NSamples |-> 0, MD5sum |-> Zeros(16)] : b \in {0, 4096}, ch \in {1, 2}}

InitEncoder ==
    /\ stream = Idle
    /\ fx = Idle
    /\ \E info \in EncInfos, seekable \in BOOLEAN, n \in 0 .. MaxEncBlocks :
         \E blocks \in [1 .. n -> EncBlocks] :
            ret = [op |-> "encoder", pc |-> 0, seekable |-> seekable, out |-> <<>>,
                   Info |-> info, Blocks |-> blocks, frames |-> 0,
                   blockSizeMin |-> 0, blockSizeMax |-> 0,
                   frameSizeMin |-> 0, frameSizeMax |-> 0,
                   nsamples |-> 0, md5 |-> 0]

EncoderNew ==
    /\ ret.op = "encoder" /\ ret.pc = 0
    /\ ret' = NewEncoder(ret)
    /\ UNCHANGED <<stream, fx>>

EncoderWriteFrame ==
    /\ ret.op = "encoder" /\ ret.pc = 1 /\ ret.frames < MaxEncFrames
    /\ \E blockSize \in {16, 4096}, frameSize \in 1 .. MaxFrameSize :
          ret' = WriteFrame(ret, blockSize, frameSize)
    /\ UNCHANGED <<stream, fx>>

Close ==
    /\ ret.op = "encoder" /\ ret.pc = 1
    /\ ret' = EncoderClose(ret)
    /\ UNCHANGED <<stream, fx>>

NextEncoder == EncoderNew \/ EncoderWriteFrame \/ Close

SpecEncoder == InitEncoder /\ [][NextEncoder]_vars

\* The offsets (from 0) of the metadata block headers in out, found by
\* walking the lengths from offset off.
RECURSIVE HeaderOffsets(_, _)
HeaderOffsets(out, off) ==
    IF off + 4 > Len(out) THEN {}
    ELSE {off} \cup HeaderOffsets(out, off + 4 + (out[off + 2] * 256 + out[off + 3]) * 256
                                                + out[off + 4])

IsLastAt(out, off) == out[off + 1] >= 128

\* C15: in the bytes NewEncoder wrote exactly one metadata block header has
\* is_last set, and it is the header of the final block, whatever the IsLast
\* fields of the blocks passed in.
OneLastBlock ==
    (ret.op = "encoder" /\ ret.pc = 1 /\ ret.frames = 0) =>
        LET offs == HeaderOffsets(ret.out, Len(flacSignature)) IN
        /\ Cardinality(offs) = 1 + Len(ret.Blocks)
        /\ \A off \in offs : IsLastAt(ret.out, off) <=> (\A o \in offs : o <= off)

\* NewEncoder wrote two blocks after the StreamInfo, the first passed in with
\* IsLast set and the second without.
OneLastBlockWitness ==
    /\ ret.op = "encoder" /\ ret.pc = 1 /\ ret.frames = 0
    /\ Len(ret.Blocks) = 2
    /\ ret.Blocks[1].IsLast /\ ~ret.Blocks[2].IsLast
    /\ ret.Blocks[1].Length > 0

\* The big-endian number in bytes off+1 .. off+n of out.
RECURSIVE NumberAt(_, _, _)
NumberAt(out, off, n) ==
    IF n = 0 THEN 0 ELSE NumberAt(out, off, n - 1) * 256 + out[off + n]

\* C16: Close on a seekable sink overwrites offsets 4..41 with a StreamInfo
\* block holding the observed block sizes, frame sizes, sample count and MD5
\* and the is_last bit NewEncoder wrote, and changes no other byte; on a sink
\* that is not seekable it writes nothing.
CloseRewritesStreamInfo ==
    [][(ret.op = "encoder" /\ ret.pc = 1 /\ ret'.pc = 2) =>
         IF ret.seekable
         THEN /\ Len(ret'.out) = Len(ret.out)
              /\ \A i \in 1 .. Len(ret.out) : (i <= 4 \/ i > 42) => ret'.out[i] = ret.out[i]
              /\ ret'.out[5] = ret.out[5]
              /\ NumberAt(ret'.out, 5, 3) = 34
              /\ NumberAt(ret'.out, 8, 2) = ret.blockSizeMin
              /\ NumberAt(ret'.out, 10, 2) = ret.blockSizeMax
              /\ NumberAt(ret'.out, 12, 3) = ret.frameSizeMin
              /\ NumberAt(ret'.out, 15, 3) = ret.frameSizeMax
              /\ NumberAt(ret'.out, 18, 3) \div 16 = ret.Info.SampleRate
              /\ NumberAt(ret'.out, 22, 4) = ret.nsamples
              /\ SubSeq(ret'.out, 27, 42) = MD5Sum(ret.md5)
         ELSE ret'.out = ret.out]_vars

\* A seekable encoder with a block after the StreamInfo was closed after two
\* frames of different sizes.
CloseWitness ==
    /\ ret.op = "encoder" /\ ret.pc = 2
    /\ ret.seekable
    /\ Len(ret.Blocks) > 0
    /\ ret.frames = 2
    /\ ret.blockSizeMin < ret.blockSizeMax
    /\ ret.frameSizeMin < ret.frameSizeMax

(***************************************************************************)
(* meta: parseSeekTable.  The body of the block is a sequence of seek      *)
(* points followed by 0 or more stray bytes; lr holds the first avail      *)
(* bytes of it.  Sample numbers are compared only, so the largest number   *)
(* of the model stands for 0xFFFFFFFFFFFFFFFF.                             *)
(***************************************************************************)
PlaceholderPoint == MaxInt32

ErrNoSeekPoint == "meta.Block.parseSeekTable: at least one seek point is required"
ErrSeekPointOrder == "meta.Block.parseSeekTable: invalid seek point order"
ErrSeekPointDuplicate == "meta.Block.parseSeekTable: duplicate seek point"

PointSize == 18

\* The loop of parseSeekTable from point i on; prev is declared before the
\* loop and not assigned in it.
RECURSIVE parseSeekPoints(_, _, _, _)
parseSeekPoints(b, n, i, prev) ==
    IF i > n THEN [err |-> Nil, Points |-> SubSeq(b.body, 1, n), consumed |-> PointSize * n]
    ELSE IF PointSize * i > b.avail
    THEN [err |-> ErrUnexpectedEOF, Points |-> SubSeq(b.body, 1, i - 1),
          consumed |-> b.avail]
    ELSE LET sampleNum == b.body[i].SampleNum IN
         IF i # 1 /\ sampleNum # PlaceholderPoint /\ sampleNum < prev
         THEN [err |-> ErrSeekPointOrder, Points |-> SubSeq(b.body, 1, i),
               consumed |-> PointSize * i]
         ELSE IF i # 1 /\ sampleNum # PlaceholderPoint /\ sampleNum = prev
         THEN [err |-> ErrSeekPointDuplicate, Points |-> SubSeq(b.body, 1, i),
               consumed |-> PointSize * i]
         ELSE parseSeekPoints(b, n, i + 1, prev)

parseSeekTable(b) ==
    LET n == b.Length \div PointSize IN
    IF n < 1 THEN [err |-> ErrNoSeekPoint, Points |-> <<>>, consumed |-> 0]
    ELSE parseSeekPoints(b, n, 1, 0)

MaxPoints == 3
SeekSpan == 2
SampleNums == 0 .. SeekSpan \cup {PlaceholderPoint}
StrayBytes == {0, 1, PointSize - 1}

InitSeekTable ==
    /\ stream = Idle
    /\ ret = Idle
    /\ \E k \in 0 .. MaxPoints, stray \in StrayBytes, cut \in {0, 1} :
         \E body \in [1 .. k -> [SampleNum : SampleNums, NSamples : {1}]] :
            /\ PointSize * k + stray >= cut
            /\ fx = [op |-> "seektable", Length |-> PointSize * k + stray,
                     body |-> body, avail |-> PointSize * k + stray - cut,
                     pc |-> 0, err |-> Nil, Points |-> <<>>, consumed |-> 0]

ParseSeekTable ==
    /\ fx.op = "seektable" /\ fx.pc = 0
    /\ LET p == parseSeekTable(fx) IN
          fx' = [fx EXCEPT !.pc = 1, !.err = p.err, !.Points = p.Points,
                           !.consumed = p.consumed]
    /\ UNCHANGED <<stream, ret>>

NextSeekTable == ParseSeekTable

SpecSeekTable == InitSeekTable /\ [][NextSeekTable]_vars

\* The non-placeholder points of the first n points are strictly increasing.
StrictlyIncreasing(body, n) ==
    \A i, j \in 1 .. n :
        (i < j /\ body[i].SampleNum # PlaceholderPoint
               /\ body[j].SampleNum # PlaceholderPoint)
            => body[i].SampleNum < body[j].SampleNum

\* C17: parseSeekTable reports an error for every table whose non-placeholder
\* points are not strictly increasing by SampleNum, and accepts every table
\* whose non-placeholder points are.
SeekTableSorted ==
    (fx.op = "seektable" /\ fx.pc = 1) =>
        /\ fx.err = Nil => StrictlyIncreasing(fx.body, fx.Length \div PointSize)
        /\ (fx.Length >= PointSize /\ fx.Length % PointSize = 0 /\ fx.avail = fx.Length
              /\ StrictlyIncreasing(fx.body, Len(fx.body)))
              => fx.err = Nil

\* C18: a SeekTable block whose length is not a multiple of 18 is rejected;
\* an accepted one yields length/18 points and consumes length bytes.
SeekTableLength ==
    (fx.op = "seektable" /\ fx.pc = 1) =>
        /\ fx.Length % PointSize # 0 => fx.err # Nil
        /\ fx.err = Nil =>
              /\ Len(fx.Points) * PointSize = fx.Length
              /\ fx.consumed = fx.Length

(***************************************************************************)
(* meta: parseTrack, the offset and number of a cue sheet track.  The      *)
(* rest of a track (ISRC, flags, index points) is well formed.             *)
(***************************************************************************)
ErrTrackOffset == "meta.Block.parseCueSheet: CD-DA track offset must be evenly divisible by 588"
ErrTrackDuplicate == "meta.Block.parseCueSheet: duplicated track number"
ErrTrackZero == "meta.Block.parseCueSheet: invalid track number (0)"
ErrTrackExceeds == "meta.Block.parseCueSheet: CD-DA track number exceeds 99"
ErrLeadOutCD == "meta.Block.parseCueSheet: invalid lead-out CD-DA track number; expected 170"
ErrLeadOut == "meta.Block.parseCueSheet: invalid lead-out track number; expected 255"

SamplesPerSector == 588
LeadOutCD == 170
LeadOutNum == 255

\* parseTrack for track i of cs (from 1), with the numbers seen so far.
parseTrack(cs, i, uniq) ==
    LET track == cs.Tracks[i]
        isLeadOut == i = Len(cs.Tracks)
    IN  IF cs.IsCompactDisc /\ track.Offset % SamplesPerSector # 0
        THEN [err |-> ErrTrackOffset, uniq |-> uniq]
        ELSE IF track.Num \in uniq
        THEN [err |-> ErrTrackDuplicate, uniq |-> uniq]
        ELSE IF track.Num = 0
        THEN [err |-> ErrTrackZero, uniq |-> uniq \cup {track.Num}]
        ELSE IF cs.IsCompactDisc
        THEN IF ~isLeadOut /\ track.Num >= 100
             THEN [err |-> ErrTrackExceeds, uniq |-> uniq \cup {track.Num}]
             ELSE IF track.Num # LeadOutCD
             THEN [err |-> ErrLeadOutCD, uniq |-> uniq \cup {track.Num}]
             ELSE [err |-> Nil, uniq |-> uniq \cup {track.Num}]
        ELSE IF isLeadOut /\ track.Num # LeadOutNum
        THEN [err |-> ErrLeadOut, uniq |-> uniq \cup {track.Num}]
        ELSE [err |-> Nil, uniq |-> uniq \cup {track.Num}]

MaxTracks == 3
TrackOffsets == {0, SamplesPerSector, SamplesPerSector + 1}
TrackNums == {0, 1, 2, 100, LeadOutCD, LeadOutNum}

InitCueSheet ==
    /\ stream = Idle
    /\ ret = Idle
    /\ \E cd \in BOOLEAN, n \in 1 .. MaxTracks :
         \E tracks \in [1 .. n -> [Offset : TrackOffsets, Num : TrackNums]] :
            fx = [op |-> "cuesheet",
                  cs |-> [IsCompactDisc |-> cd, Tracks |-> tracks],
                  i |-> 0, uniq |-> {}, err |-> Nil]

\* parseCueSheet calls parseTrack for one track after the other and stops
\* at the first error.
ParseTrack ==
    /\ fx.op = "cuesheet" /\ fx.err = Nil /\ fx.i < Len(fx.cs.Tracks)
    /\ LET p == parseTrack(fx.cs, fx.i + 1, fx.uniq) IN
          fx' = [fx EXCEPT !.i = fx.i + 1, !.uniq = p.uniq, !.err = p.err]
    /\ UNCHANGED <<stream, ret>>

NextCueSheet == ParseTrack

SpecCueSheet == InitCueSheet /\ [][NextCueSheet]_vars

\* What the cue sheet rules ask of track k.
TrackValid(cs, k) ==
    LET track == cs.Tracks[k]
        isLeadOut == k = Len(cs.Tracks)
    IN  /\ track.Num # 0
        /\ \A j \in 1 .. k - 1 : cs.Tracks[j].Num # track.Num
        /\ cs.IsCompactDisc =>
              /\ track.Offset % 588 = 0
              /\ IF isLeadOut THEN track.Num = 170 ELSE track.Num <= 99
        /\ (~cs.IsCompactDisc /\ isLeadOut) => track.Num = 255

\* C19: parseTrack accepts the offset and number of a track exactly when the
\* number is not 0 and not used before, on a CD cue sheet the offset is a
\* multiple of 588, a non-lead-out number is at most 99 and the lead-out is
\* 170, and on another cue sheet the lead-out is 255.
TrackAcceptedIffValid ==
    (fx.op = "cuesheet" /\ fx.i > 0) =>
        (fx.err = Nil <=> TrackValid(fx.cs, fx.i))

(***************************************************************************)
(* meta: parseVorbisComment and encodeVorbisComment.  A string is the      *)
(* sequence of its bytes; the parser reads the body of the block.          *)
(***************************************************************************)
ErrNoEquals == "meta.Block.parseVorbisComment: unable to locate '=' in vector"

EqualsSign == 61

\* binary.Write(bw, binary.LittleEndian, uint32(n)).
PutUint32(n) == [k \in 1 .. 4 |-> (n \div Pow2(8 * (k - 1))) % 256]

\* binary.Read(lr, binary.LittleEndian, &x) at the head of rd.
ReadUint32(rd) ==
    IF Len(rd) < 4 THEN [err |-> ErrUnexpectedEOF, x |-> 0, rd |-> <<>>]
    ELSE [err |-> Nil, x |-> rd[1] + 256 * (rd[2] + 256 * (rd[3] + 256 * (rd[4] % 64))),
          rd |-> SubSeq(rd, 5, Len(rd))]

\* readString(lr, n): the next n bytes.
readString(rd, n) ==
    IF Len(rd) < n THEN [err |-> ErrUnexpectedEOF, str |-> <<>>, rd |-> <<>>]
    ELSE [err |-> Nil, str |-> SubSeq(rd, 1, n), rd |-> SubSeq(rd, n + 1, Len(rd))]

\* strings.LastIndex(vector, "="), from 0, or -1.
LastIndexEq(vector) ==
    IF \E i \in 1 .. Len(vector) : vector[i] = EqualsSign
    THEN (CHOOSE i \in 1 .. Len(vector) :
             /\ vector[i] = EqualsSign
             /\ \A j \in i + 1 .. Len(vector) : vector[j] # EqualsSign) - 1
    ELSE 0 - 1

\* strings.Index(vector, "="), from 0, or -1.
IndexEq(vector) ==
    IF \E i \in 1 .. Len(vector) : vector[i] = EqualsSign
    THEN (CHOOSE i \in 1 .. Len(vector) :
             /\ vector[i] = EqualsSign
             /\ \A j \in 1 .. i - 1 : vector[j] # EqualsSign) - 1
    ELSE 0 - 1

\* The loop of parseVorbisComment over the tags still to read.
RECURSIVE parseTags(_, _, _)
parseTags(rd, left, Tags) ==
    IF left = 0 THEN [err |-> Nil, vector |-> <<>>, Tags |-> Tags]
    ELSE LET x == ReadUint32(rd)
             v == readString(x.rd, x.x)
             pos == IndexEq(v.str)
         IN  IF x.err # Nil THEN [err |-> x.err, vector |-> <<>>, Tags |-> Tags]
             ELSE IF v.err # Nil THEN [err |-> v.err, vector |-> <<>>, Tags |-> Tags]
             ELSE IF pos = 0 - 1 THEN [err |-> ErrNoEquals, vector |-> v.str, Tags |-> Tags]
             ELSE parseTags(v.rd, left - 1,
                            Append(Tags, <<SubSeq(v.str, 1, pos),
                                           SubSeq(v.str, pos + 2, Len(v.str))>>))

parseVorbisComment(rd) ==
    LET x == ReadUint32(rd)
        vendor == readString(x.rd, x.x)
        n == ReadUint32(vendor.rd)
    IN  IF x.err # Nil
        THEN [err |-> x.err, vector |-> <<>>, Vendor |-> <<>>, Tags |-> <<>>]
        ELSE IF vendor.err # Nil
        THEN [err |-> vendor.err, vector |-> <<>>, Vendor |-> <<>>, Tags |-> <<>>]
        ELSE IF n.err # Nil
        THEN [err |-> n.err, vector |-> <<>>, Vendor |-> vendor.str, Tags |-> <<>>]
        ELSE IF n.x < 1
        THEN [err |-> Nil, vector |-> <<>>, Vendor |-> vendor.str, Tags |-> <<>>]
        ELSE LET t == parseTags(n.rd, n.x, <<>>) IN
             [err |-> t.err, vector |-> t.vector, Vendor |-> vendor.str, Tags |-> t.Tags]

\* The vectors encodeVorbisComment writes, "%s=%s" of each tag, from tag i on.
RECURSIVE encodeTags(_, _)
encodeTags(Tags, i) ==
    IF i > Len(Tags) THEN <<>>
    ELSE LET buf == Tags[i][1] \o <<EqualsSign>> \o Tags[i][2] IN
         PutUint32(Len(buf)) \o buf \o encodeTags(Tags, i + 1)

\* The body encodeVorbisComment writes after the block header.
encodeVorbisComment(comment) ==
    PutUint32(Len(comment.Vendor)) \o comment.Vendor
    \o PutUint32(Len(comment.Tags)) \o encodeTags(comment.Tags, 1)

MaxTags == 2
MaxName == 2
VorbisChars == {EqualsSign, 97}

VorbisNames == UNION {[1 .. k -> VorbisChars] : k \in 0 .. MaxName}
VorbisValues == {<<>>, <<EqualsSign>>, <<97>>, <<97, EqualsSign>>}
VorbisVendors == {<<>>, <<97>>}

\* A body written by hand: the vendor, a count and the vectors as they are.
RECURSIVE RawVectors(_, _)
RawVectors(vectors, i) ==
    IF i > Len(vectors) THEN <<>>
    ELSE PutUint32(Len(vectors[i])) \o vectors[i] \o RawVectors(vectors, i + 1)

RawBody(vendor, vectors) ==
    PutUint32(Len(vendor)) \o vendor \o PutUint32(Len(vectors)) \o RawVectors(vectors, 1)

InitVorbis ==
    /\ stream = Idle
    /\ ret = Idle
    /\ \E vendor \in VorbisVendors, n \in 0 .. MaxTags :
         \/ \E Tags \in [1 .. n -> VorbisNames \X VorbisValues] :
               fx = [op |-> "vorbis", pc |-> 0, raw |-> FALSE,
                     comment |-> [Vendor |-> vendor, Tags |-> Tags],
                     vectors |-> <<>>, body |-> <<>>,
                     err |-> Nil, vector |-> <<>>, Vendor |-> <<>>, Tags |-> <<>>]
         \/ \E vectors \in [1 .. n -> VorbisNames], cut \in {0, 1} :
               fx = [op |-> "vorbis", pc |-> 1, raw |-> TRUE,
                     comment |-> [Vendor |-> vendor, Tags |-> <<>>],
                     vectors |-> vectors,
                     body |-> LET b == RawBody(vendor, vectors)
                              IN SubSeq(b, 1, Len(b) - cut),
                     err |-> Nil, vector |-> <<>>, Vendor |-> <<>>, Tags |-> <<>>]

EncodeVorbisComment ==
    /\ fx.op = "vorbis" /\ fx.pc = 0
    /\ fx' = [fx EXCEPT !.pc = 1, !.body = encodeVorbisComment(fx.comment)]
    /\ UNCHANGED <<stream, ret>>

ParseVorbisComment ==
    /\ fx.op = "vorbis" /\ fx.pc = 1
    /\ LET p == parseVorbisComment(fx.body) IN
          fx' = [fx EXCEPT !.pc = 2, !.err = p.err, !.vector = p.vector,
                           !.Vendor = p.Vendor, !.Tags = p.Tags]
    /\ UNCHANGED <<stream, ret>>

NextVorbis == EncodeVorbisComment \/ ParseVorbisComment

SpecVorbis == InitVorbis /\ [][NextVorbis]_vars

HasEquals(str) == \E i \in 1 .. Len(str) : str[i] = EqualsSign

\* The part of str before its first '=' and the part after it.
SplitAtFirst(str) ==
    LET i == CHOOSE k \in 1 .. Len(str) :
                 str[k] = EqualsSign /\ ~HasEquals(SubSeq(str, 1, k - 1))
    IN <<SubSeq(str, 1, i - 1), SubSeq(str, i + 1, Len(str))>>

\* C20: parseVorbisComment fails, naming the vector, on a vector without
\* '='; otherwise each vector is split at its first '=' and the tags keep
\* their order, a count of 0 included; and what encodeVorbisComment wrote
\* parses to the same vendor and tags when no tag name contains '='.
VorbisCommentLaw ==
    (fx.op = "vorbis" /\ fx.pc = 2) =>
        /\ (fx.raw /\ Len(fx.body) = Len(RawBody(fx.comment.Vendor, fx.vectors))) =>
              IF \E i \in 1 .. Len(fx.vectors) : ~HasEquals(fx.vectors[i])
              THEN /\ fx.err = ErrNoEquals
                   /\ \E i \in 1 .. Len(fx.vectors) :
                         /\ fx.vector = fx.vectors[i]
                         /\ ~HasEquals(fx.vectors[i])
              ELSE /\ fx.err = Nil
                   /\ fx.Vendor = fx.comment.Vendor
                   /\ fx.Tags = [i \in 1 .. Len(fx.vectors) |-> SplitAtFirst(fx.vectors[i])]
        /\ (~fx.raw /\ \A i \in 1 .. Len(fx.comment.Tags) : ~HasEquals(fx.comment.Tags[i][1])) =>
              /\ fx.err = Nil
              /\ fx.Vendor = fx.comment.Vendor
              /\ fx.Tags = fx.comment.Tags

\* A comment with two tags, a value of which holds '=', was written and
\* parsed back.
VorbisCommentWitness ==
    /\ fx.op = "vorbis" /\ fx.pc = 2 /\ ~fx.raw
    /\ fx.err = Nil
    /\ Len(fx.Tags) = 2
    /\ HasEquals(fx.Tags[1][2])
    /\ fx.Tags[1][1] # <<>>

(***************************************************************************)
(* bits: Reader.Read, and the metadata block header read with it.  A       *)
(* uint64 is the sequence of its 64 bits, most significant first; the      *)
(* source is a sequence of bytes and pos the number of bytes taken.        *)
(***************************************************************************)
ErrBitCount == "bit.Reader.Read: invalid number of bits; n exceeds 64"

WordBits == 64

\* uint64(b) of a value below 2^8.
U64(b) == [i \in 1 .. WordBits |-> IF i <= WordBits - 8 THEN 0
                                    ELSE (b \div Pow2(WordBits - i)) % 2]

\* x << k and x | y on uint64.
Shl64(x, k) == [i \in 1 .. WordBits |-> IF i + k <= WordBits THEN x[i + k] ELSE 0]
Or64(x, y) == [i \in 1 .. WordBits |-> IF x[i] + y[i] > 0 THEN 1 ELSE 0]

\* io.ReadFull(br.r, br.buf[:bytes]).
readFullBuf(br, bytes) ==
    LET avail == Len(br.data) - br.pos IN
    IF avail >= bytes
    THEN [err |-> Nil, buf |-> SubSeq(br.data, br.pos + 1, br.pos + bytes),
          pos |-> br.pos + bytes]
    ELSE [err |-> IF avail = 0 THEN EOF ELSE ErrUnexpectedEOF, buf |-> <<>>,
          pos |-> Len(br.data)]

\* The loop over br.buf[:bytes-1].
RECURSIVE shiftInBytes(_, _, _)
shiftInBytes(x, buf, i) ==
    IF i >= Len(buf) THEN x
    ELSE shiftInBytes(Or64(Shl64(x, 8), U64(buf[i])), buf, i + 1)

\* Read that takes the bits of the last byte from its low end.
ReaderReadLowBits(br, n) ==
    IF n = 0 THEN [x |-> U64(0), err |-> Nil, br |-> br]
    ELSE IF n > WordBits THEN [x |-> U64(0), err |-> ErrBitCount, br |-> br]
    ELSE IF br.n > 0 /\ br.n = n
    THEN [x |-> U64(br.x), err |-> Nil, br |-> [br EXCEPT !.n = 0]]
    ELSE IF br.n > n
    THEN [x |-> U64(br.x % Pow2(n)), err |-> Nil,
          br |-> [br EXCEPT !.n = br.n - n, !.x = br.x \div Pow2(n)]]
    ELSE LET m == n - br.n
             x0 == IF br.n > 0 THEN U64(br.x) ELSE U64(0)
             bits == m % 8
             bytes == (m \div 8) + (IF bits > 0 THEN 1 ELSE 0)
             rf == readFullBuf(br, bytes)
             x1 == shiftInBytes(x0, rf.buf, 1)
             b == rf.buf[bytes]
         IN  IF rf.err # Nil
             THEN [x |-> U64(0), err |-> rf.err, br |-> [br EXCEPT !.n = 0, !.pos = rf.pos]]
             ELSE IF bits > 0
             THEN [x |-> Or64(Shl64(x1, bits), U64(b % Pow2(bits))), err |-> Nil,
                   br |-> [br EXCEPT !.pos = rf.pos, !.n = 8 - bits,
                                     !.x = b \div Pow2(bits)]]
             ELSE [x |-> Or64(Shl64(x1, 8), U64(b)), err |-> Nil,
                   br |-> [br EXCEPT !.pos = rf.pos, !.n = 0]]

\* Reader.Read.
ReaderRead(br, n) ==
    IF n = 0 THEN [x |-> U64(0), err |-> Nil, br |-> br]
    ELSE IF n > WordBits THEN [x |-> U64(0), err |-> ErrBitCount, br |-> br]
    ELSE IF br.n > 0 /\ br.n = n
    THEN [x |-> U64(br.x), err |-> Nil, br |-> [br EXCEPT !.n = 0]]
    ELSE IF br.n > n
    THEN [x |-> U64(br.x \div Pow2(br.n - n)), err |-> Nil,
          br |-> [br EXCEPT !.n = br.n - n, !.x = br.x % Pow2(br.n - n)]]
    ELSE LET m == n - br.n
             x0 == IF br.n > 0 THEN U64(br.x) ELSE U64(0)
             bits == m % 8
             bytes == (m \div 8) + (IF bits > 0 THEN 1 ELSE 0)
             rf == readFullBuf(br, bytes)
             x1 == shiftInBytes(x0, rf.buf, 1)
             b == rf.buf[bytes]
         IN  IF rf.err # Nil
             THEN [x |-> U64(0), err |-> rf.err, br |-> [br EXCEPT !.n = 0, !.pos = rf.pos]]
             ELSE IF bits > 0
             THEN [x |-> Or64(Shl64(x1, bits), U64(b \div Pow2(8 - bits))), err |-> Nil,
                   br |-> [br EXCEPT !.pos = rf.pos, !.n = 8 - bits,
                                     !.x = b % Pow2(8 - bits)]]
             ELSE [x |-> Or64(Shl64(x1, 8), U64(b)), err |-> Nil,
                   br |-> [br EXCEPT !.pos = rf.pos, !.n = 0]]

\* unexpected: io.EOF becomes io.ErrUnexpectedEOF.
unexpected(err) == IF err = EOF THEN ErrUnexpectedEOF ELSE err

\* parseHeader that passes every error of the reader on as it is.
blockParseHeaderPlain(br) ==
    LET a == ReaderRead(br, 1)
        b == ReaderRead(a.br, 7)
        c == ReaderRead(b.br, 24)
    IN  IF a.err # Nil THEN [err |-> a.err, br |-> a.br]
        ELSE IF b.err # Nil THEN [err |-> b.err, br |-> b.br]
        ELSE [err |-> c.err, br |-> c.br]

\* Block.parseHeader: 1 bit IsLast, 7 bits Type, 24 bits Length.
blockParseHeader(br) ==
    LET a == ReaderRead(br, 1)
        b == ReaderRead(a.br, 7)
        c == ReaderRead(b.br, 24)
    IN  IF a.err # Nil THEN [err |-> a.err, br |-> a.br]
        ELSE IF b.err # Nil THEN [err |-> unexpected(b.err), br |-> b.br]
        ELSE IF c.err # Nil THEN [err |-> unexpected(c.err), br |-> c.br]
        ELSE [err |-> Nil, br |-> c.br]

MaxData == 9
BitPattern == <<165, 60, 255, 1, 128, 90, 0, 195, 36, 127, 254>>
BitSources == {SubSeq(BitPattern, 1, k) : k \in 0 .. MaxData}
             \cup {SubSeq(BitPattern, 2, k) : k \in 2 .. MaxData}
ReadSizes == {0, 1, 7, 8, 9, 24, 33, WordBits, WordBits + 1}

InitBits ==
    /\ stream = Idle
    /\ ret = Idle
    /\ \E data \in BitSources :
          fx = [op |-> "bits", br |-> [data |-> data, pos |-> 0, x |-> 0, n |-> 0],
                call |-> "none", fresh |-> TRUE, n |-> 0, out |-> U64(0), err |-> Nil,
                total |-> 0, failed |-> FALSE]

BitsRead ==
    /\ fx.op = "bits" /\ fx.call # "parseHeader"
    /\ \E n \in ReadSizes :
          LET r == ReaderRead(fx.br, n) IN
          fx' = [fx EXCEPT !.br = r.br, !.call = "Read", !.fresh = (fx.call = "none"),
                           !.n = n, !.out = r.x, !.err = r.err,
                           !.total = IF r.err = Nil THEN fx.total + n ELSE fx.total,
                           !.failed = fx.failed \/ r.err # Nil]
    /\ UNCHANGED <<stream, ret>>

BlockParseHeader ==
    /\ fx.op = "bits" /\ fx.call = "none"
    /\ LET r == blockParseHeader(fx.br) IN
          fx' = [fx EXCEPT !.br = r.br, !.call = "parseHeader", !.err = r.err]
    /\ UNCHANGED <<stream, ret>>

NextBits == BitsRead \/ BlockParseHeader

SpecBits == InitBits /\ [][NextBits]_vars

\* C21: reading a block header gives io.EOF only when the input ends before
\* the first byte of the header and io.ErrUnexpectedEOF when it ends after at
\* least one byte; Read(n) on a fresh reader gives io.EOF only when the
\* source is empty and io.ErrUnexpectedEOF when it holds some but fewer than
\* ceil(n/8) bytes.
EOFOnlyAtStart ==
    /\ (fx.op = "bits" /\ fx.call = "parseHeader") =>
          /\ fx.err = EOF <=> fx.br.data = <<>>
          /\ Len(fx.br.data) \in 1 .. 3 => fx.err = ErrUnexpectedEOF
          /\ Len(fx.br.data) >= 4 => fx.err = Nil
    /\ (fx.op = "bits" /\ fx.call = "Read" /\ fx.fresh /\ fx.n \in 1 .. 64) =>
          /\ fx.err = EOF <=> fx.br.data = <<>>
          /\ (fx.br.data # <<>> /\ 8 * Len(fx.br.data) < fx.n)
                => fx.err = ErrUnexpectedEOF

\* A header cut after its first three bytes was read.
EOFOnlyAtStartWitness ==
    /\ fx.op = "bits" /\ fx.call = "parseHeader"
    /\ Len(fx.br.data) = 3
    /\ fx.err = ErrUnexpectedEOF

\* Bit k (from 1) of the source, most significant bit of each byte first.
SourceBit(data, k) == (data[((k - 1) \div 8) + 1] \div Pow2(7 - ((k - 1) % 8))) % 2

\* C25: the values of successful Read calls, as n-bit big-endian fields one
\* after the other, are the leading bits of the source; between calls the
\* reader holds 0..7 bits, the unread low bits of the last byte taken;
\* Read(0) gives 0 and takes nothing; n > 64 is an error.
BitsMSBFirst ==
    (fx.op = "bits" /\ fx.call = "Read") =>
        /\ fx.br.n \in 0 .. 7
        /\ ~fx.failed =>
              /\ 8 * fx.br.pos - fx.br.n = fx.total
              /\ fx.br.n > 0 => fx.br.x = fx.br.data[fx.br.pos] % Pow2(fx.br.n)
              /\ fx.out = [i \in 1 .. 64 |->
                              IF i <= 64 - fx.n THEN 0
                              ELSE SourceBit(fx.br.data, fx.total - 64 + i)]
        /\ fx.n > 64 => fx.err # Nil
        /\ fx.n = 0 => fx.err = Nil /\ fx.out = [i \in 1 .. 64 |-> 0]

\* A 64-bit read that began in the middle of a byte succeeded.
BitsMSBFirstWitness ==
    /\ fx.op = "bits" /\ fx.call = "Read" /\ ~fx.failed
    /\ fx.n = 64
    /\ fx.total > 64
    /\ fx.br.n > 0

(***************************************************************************)
(* frame: SampleNumber of the frames ParseNext returns.                    *)
(***************************************************************************)
\* C22: SampleNumber of a frame is the first sample number in the frame,
\* the sum of the block sizes of the frames before it, for variable and for
\* fixed block size alike, the last frame of a fixed-block-size stream
\* included.
SampleNumberIsFirstSample ==
    (stream # Idle /\ ret.op = "ParseNext" /\ ret.frame # <<>>) =>
        \A i \in 1 .. Len(stream.frames) :
            (stream.dataStart + FrameOffset(stream.frames, i)
                + FrameLen(stream.frames[i]) = stream.r.pos)
            => SampleNumber(ret.frame[1]) = SumBlockSize(stream.frames, i - 1)

(***************************************************************************)
(* flac: encodeSubframe and the samples of its subframe.  The bits written *)
(* are left out; the errors of the sample encoders are kept.               *)
(***************************************************************************)
PredConstant == "Constant"
PredVerbatim == "Verbatim"
PredFixed == "Fixed"
PredFIR == "FIR"

ErrConstantMismatch == "constant sample mismatch"
ErrBlockSizeMismatch == "block size and sample count mismatch"
ErrPred == "support for prediction method not yet implemented"

\* sample >> w and sample << w on int32, for w below 31 or at least 32.
ShrInt32(sample, w) ==
    IF w >= 32 THEN (IF sample < 0 THEN 0 - 1 ELSE 0) ELSE sample \div Pow2(w)

ShlInt32(sample, w) ==
    IF w >= 32 THEN 0 ELSE ToInt32(WMul(Pow2(w), sample))

\* The error of the encoder of the samples, for the shifted samples.
encodeSamples(hdr, subframe, samples) ==
    CASE subframe.Pred = PredConstant ->
            IF \E i \in 2 .. Len(samples) : samples[i] # samples[1]
            THEN ErrConstantMismatch ELSE Nil
      [] subframe.Pred = PredVerbatim ->
            IF hdr.BlockSize # Len(samples) THEN ErrBlockSizeMismatch ELSE Nil
      [] subframe.Pred \in {PredFixed, PredFIR} -> Nil
      [] OTHER -> ErrPred

\* encodeSubframe: the samples when it returns, and its error.
encodeSubframe(hdr, subframe) ==
    LET shifted == [i \in 1 .. Len(subframe.Samples) |->
                        ShrInt32(subframe.Samples[i], subframe.Wasted)]
        restored == [i \in 1 .. Len(subframe.Samples) |->
                        ShlInt32(shifted[i], subframe.Wasted)]
    IN  IF subframe.Wasted > 0
        THEN [err |-> encodeSamples(hdr, subframe, shifted), Samples |-> restored]
        ELSE [err |-> encodeSamples(hdr, subframe, subframe.Samples),
              Samples |-> subframe.Samples]

MaxSubSamples == 2
SubSpan == 4
WastedValues == {0, 1, 2, 32}
SubSamples == (0 - SubSpan) .. SubSpan \cup {MinInt32, MaxInt32}
Preds == {PredConstant, PredVerbatim, PredFixed, PredFIR, "Reserved"}

InitEncodeSubframe ==
    /\ stream = Idle
    /\ ret = Idle
    /\ \E pred \in Preds, wasted \in WastedValues, n \in 1 .. MaxSubSamples,
          blockSize \in 1 .. MaxSubSamples :
         \E samples \in [1 .. n -> SubSamples] :
            fx = [op |-> "encodeSubframe", pc |-> 0, hdr |-> [BlockSize |-> blockSize],
                  subframe |-> [Pred |-> pred, Wasted |-> wasted, Samples |-> samples],
                  before |-> samples, err |-> Nil]

EncodeSubframe ==
    /\ fx.op = "encodeSubframe" /\ fx.pc = 0
    /\ LET r == encodeSubframe(fx.hdr, fx.subframe) IN
          fx' = [fx EXCEPT !.pc = 1, !.err = r.err, !.subframe.Samples = r.Samples]
    /\ UNCHANGED <<stream, ret>>

NextEncodeSubframe == EncodeSubframe

SpecEncodeSubframe == InitEncodeSubframe /\ [][NextEncodeSubframe]_vars

\* C23: when encodeSubframe returns, with or without an error, the samples of
\* the subframe are the ones it held before the call, for every value of
\* Wasted and every sample content.
EncodeKeepsSamples ==
    (fx.op = "encodeSubframe" /\ fx.pc = 1) => fx.subframe.Samples = fx.before

(***************************************************************************)
(* bufseekio: ReadSeeker over a bytes.Reader.  rd is the offset of the     *)
(* wrapped reader in data.                                                 *)
(***************************************************************************)
ErrNegativePosition == "bytes.Reader.Seek: negative position"

SeekStart == "io.SeekStart"
SeekCurrent == "io.SeekCurrent"
SeekEnd == "io.SeekEnd"

minReadBufferSize == 16

\* Read of the wrapped reader into a slice of n bytes.
rdRead(b, n) ==
    LET left == Len(b.data) - b.rd
        m == IF left < 0 THEN 0 ELSE Min(n, left)
    IN  [n |-> m, bytes |-> SubSeq(b.data, b.rd + 1, b.rd + m),
         err |-> IF m = 0 /\ n > 0 THEN EOF ELSE Nil, rd |-> b.rd + m]

\* Seek of the wrapped reader.
rdSeek(b, offset, whence) ==
    LET abs == CASE whence = SeekStart -> offset
                 [] whence = SeekCurrent -> b.rd + offset
                 [] whence = SeekEnd -> Len(b.data) + offset
    IN  IF abs < 0 THEN [n |-> 0, err |-> ErrNegativePosition, rd |-> b.rd]
        ELSE [n |-> abs, err |-> Nil, rd |-> abs]

\* ReadSeeker.position.
position(b) == b.pos + b.r

\* ReadSeeker.Read into a slice of n bytes: the bytes, the error, the reader.
bufRead(b, n) ==
    IF n = 0
    THEN IF b.w - b.r > 0 THEN [bytes |-> <<>>, err |-> Nil, b |-> b]
         ELSE [bytes |-> <<>>, err |-> b.err, b |-> [b EXCEPT !.err = Nil]]
    ELSE IF b.r = b.w /\ b.err # Nil
    THEN [bytes |-> <<>>, err |-> b.err, b |-> [b EXCEPT !.err = Nil]]
    ELSE IF b.r = b.w /\ n >= Len(b.buf)
    THEN LET d == rdRead(b, n) IN
         [bytes |-> d.bytes, err |-> d.err,
          b |-> [b EXCEPT !.rd = d.rd, !.pos = b.pos + d.n, !.err = Nil]]
    ELSE LET d == rdRead(b, Len(b.buf))
             filled == IF b.r = b.w
                       THEN [b EXCEPT !.pos = b.pos + b.r, !.r = 0, !.w = d.n,
                                      !.rd = d.rd, !.err = d.err,
                                      !.buf = [i \in 1 .. Len(b.buf) |->
                                                  IF i <= d.n THEN d.bytes[i] ELSE b.buf[i]]]
                       ELSE b
             m == Min(n, filled.w - filled.r)
         IN  IF b.r = b.w /\ d.n = 0
             THEN [bytes |-> <<>>, err |-> d.err, b |-> [filled EXCEPT !.err = Nil]]
             ELSE [bytes |-> SubSeq(filled.buf, filled.r + 1, filled.r + m), err |-> Nil,
                   b |-> [filled EXCEPT !.r = filled.r + m]]

\* ReadSeeker.seek.
bufSeekInner(b, offset, whence) ==
    LET d == rdSeek(b, offset, whence) IN
    [n |-> d.n, err |-> d.err, b |-> [b EXCEPT !.r = 0, !.w = 0, !.rd = d.rd]]

\* ReadSeeker.Seek.
bufSeek(b, offset, whence) ==
    IF offset = 0 /\ whence = SeekCurrent THEN [n |-> position(b), err |-> Nil, b |-> b]
    ELSE IF whence = SeekEnd THEN bufSeekInner(b, offset, whence)
    ELSE LET abs == IF whence = SeekCurrent THEN offset + position(b) ELSE offset IN
         IF abs >= b.pos /\ abs < b.pos + b.w
         THEN [n |-> abs, err |-> Nil, b |-> [b EXCEPT !.r = abs - b.pos]]
         ELSE bufSeekInner(b, abs, SeekStart)

BufDataLen == 40
MaxBufCalls == 4
BufReadSizes == {0, 5, minReadBufferSize + 4}
BufSeeks == {<<0, SeekStart>>, <<minReadBufferSize + 2, SeekStart>>,
             <<BufDataLen - 2, SeekStart>>,
             <<0, SeekCurrent>>, <<4, SeekCurrent>>, <<0 - 3, SeekCurrent>>,
             <<0 - 3, SeekEnd>>}

\* A new ReadSeeker of the smallest size over the bytes 0, 1, 2, ...;
\* next is the offset a plain io.ReadSeeker would stand at.
InitBufSeek ==
    /\ stream = Idle
    /\ fx = Idle
    /\ ret = [op |-> "bufseekio", calls |-> 0, call |-> "none",
              b |-> [data |-> [i \in 1 .. BufDataLen |-> i - 1], rd |-> 0,
                     buf |-> Zeros(minReadBufferSize), pos |-> 0, r |-> 0, w |-> 0,
                     err |-> Nil],
              next |-> 0, from |-> 0, bytes |-> <<>>, n |-> 0, err |-> Nil]

BufSeekRead ==
    /\ ret.op = "bufseekio" /\ ret.calls < MaxBufCalls
    /\ \E n \in BufReadSizes :
          LET res == bufRead(ret.b, n) IN
          ret' = [ret EXCEPT !.calls = ret.calls + 1, !.call = "Read", !.b = res.b,
                             !.from = ret.next, !.next = ret.next + Len(res.bytes),
                             !.bytes = res.bytes, !.n = n, !.err = res.err]
    /\ UNCHANGED <<stream, fx>>

BufSeekSeek ==
    /\ ret.op = "bufseekio" /\ ret.calls < MaxBufCalls
    /\ \E sk \in BufSeeks :
          LET res == bufSeek(ret.b, sk[1], sk[2])
              abs == CASE sk[2] = SeekStart -> sk[1]
                       [] sk[2] = SeekCurrent -> ret.next + sk[1]
                       [] sk[2] = SeekEnd -> BufDataLen + sk[1]
          IN  ret' = [ret EXCEPT !.calls = ret.calls + 1, !.call = "Seek", !.b = res.b,
                                 !.from = ret.next,
                                 !.next = IF abs < 0 THEN ret.next ELSE abs,
                                 !.bytes = <<>>, !.n = res.n, !.err = res.err]
    /\ UNCHANGED <<stream, fx>>

NextBufSeek == BufSeekRead \/ BufSeekSeek

SpecBufSeek == InitBufSeek /\ [][NextBufSeek]_vars

\* C24: after any sequence of Read and Seek calls, Seek(0, io.SeekCurrent)
\* gives the offset of the next unread byte, as the wrapped reader would,
\* and a Read gives the source bytes from that offset on.
BufSeekEquivalent ==
    ret.op = "bufseekio" =>
        /\ position(ret.b) = ret.next
        /\ ret.call = "Read" =>
              /\ ret.bytes = SubSeq(ret.b.data, ret.from + 1, ret.from + Len(ret.bytes))
              /\ (ret.n > 0 /\ ret.from < BufDataLen) => ret.bytes # <<>>
        /\ (ret.call = "Seek" /\ ret.err = Nil) => ret.n = ret.next

(***************************************************************************)
(* Residuals of a subframe: Rice partitions, decodeFixed.                  *)
(***************************************************************************)
ErrReservedMethod == "frame.Subframe.decodeResiduals: reserved residual coding method bit pattern"

\* The number held by a sequence of bits, most significant first.
RECURSIVE SeqVal(_)
SeqVal(s) ==
    IF Len(s) = 0 THEN 0
    ELSE IF Len(s) = 1 THEN s[1]
    ELSE SeqVal(SubSeq(s, 1, Len(s) \div 2)) * Pow2(Len(s) - (Len(s) \div 2))
         + SeqVal(SubSeq(s, (Len(s) \div 2) + 1, Len(s)))

\* uint32(x) and int(x) of a uint64.
U64Wide(x) == [h |-> SeqVal(SubSeq(x, WordBits - 31, WordBits - 16)),
               l |-> SeqVal(SubSeq(x, WordBits - 15, WordBits))]
U64Int(x) == SeqVal(SubSeq(x, WordBits - 29, WordBits))

\* x << k on uint32.
RECURSIVE Shl32(_, _)
Shl32(w, k) ==
    IF k >= 16 THEN Shl32([h |-> w.l, l |-> 0], k - 16)
    ELSE [h |-> ((w.h % Pow2(16 - k)) * Pow2(k)) + (w.l \div Pow2(16 - k)),
          l |-> (w.l % Pow2(16 - k)) * Pow2(k)]

\* Reader.ReadUnary: the number of zero bits before the next one bit.
\* unaryBit goes on from the bit a that was read.
RECURSIVE ReadUnary(_)
RECURSIVE unaryBit(_)
ReadUnary(br) == unaryBit(ReaderRead(br, 1))
unaryBit(a) ==
    IF a.err # Nil THEN [x |-> 0, err |-> a.err, br |-> a.br]
    ELSE IF U64Int(a.x) = 1 THEN [x |-> 0, err |-> Nil, br |-> a.br]
    ELSE [ReadUnary(a.br) EXCEPT !.x = @ + 1]

\* bits.IntN: x as a signed n-bit number.
IntN(x, n) == IF n > 0 /\ x >= Pow2(n - 1) THEN x - Pow2(n) ELSE x

\* decodeRiceResidual from the low bits on: high is the unary value read,
\* low the result of br.Read(k).
riceLow(high, low, k) ==
    IF low.err # Nil THEN [residual |-> 0, err |-> unexpected(low.err), br |-> low.br]
    ELSE [residual |-> DecodeZigZag(WOr(Shl32(Wide(high), k), U64Wide(low.x))),
          err |-> Nil, br |-> low.br]

\* decodeRiceResidual from the result high of br.ReadUnary() on.
riceHigh(high, k) ==
    IF high.err # Nil THEN [residual |-> 0, err |-> unexpected(high.err), br |-> high.br]
    ELSE riceLow(high.x, ReaderRead(high.br, k), k)

\* Subframe.decodeRiceResidual.
decodeRiceResidual(br, k) == riceHigh(ReadUnary(br), k)

\* The loop over the Rice coded residuals of one partition; riceSample
\* goes on from the result d of decodeRiceResidual.
RECURSIVE riceSamples(_, _, _, _)
RECURSIVE riceSample(_, _, _, _)
riceSamples(br, param, nsamples, samples) ==
    IF nsamples <= 0 THEN [err |-> Nil, br |-> br, Samples |-> samples]
    ELSE riceSample(decodeRiceResidual(br, param), param, nsamples, samples)
riceSample(d, param, nsamples, samples) ==
    IF d.err # Nil THEN [err |-> d.err, br |-> d.br, Samples |-> samples]
    ELSE riceSamples(d.br, param, nsamples - 1, Append(samples, d.residual))

\* The loop over the samples of an escaped partition; escapedSample goes on
\* from the result d of br.Read(n).
RECURSIVE escapedSamples(_, _, _, _)
RECURSIVE escapedSample(_, _, _, _)
escapedSamples(br, n, nsamples, samples) ==
    IF nsamples <= 0 THEN [err |-> Nil, br |-> br, Samples |-> samples]
    ELSE escapedSample(ReaderRead(br, n), n, nsamples, samples)
escapedSample(d, n, nsamples, samples) ==
    IF d.err # Nil THEN [err |-> unexpected(d.err), br |-> d.br, Samples |-> samples]
    ELSE escapedSamples(d.br, n, nsamples - 1, Append(samples, IntN(U64Int(d.x), n)))

\* An escaped partition from the result e of br.Read(5) on.
riceEscaped(e, nsamples, samples) ==
    IF e.err # Nil THEN [err |-> unexpected(e.err), br |-> e.br, Samples |-> samples]
    ELSE escapedSamples(e.br, U64Int(e.x), nsamples, samples)

\* The samples of one partition with Rice parameter param.
ricePart(br, param, paramSize, nsamples, samples) ==
    IF param = Pow2(paramSize) - 1 THEN riceEscaped(ReaderRead(br, 5), nsamples, samples)
    ELSE riceSamples(br, param, nsamples, samples)

\* The number of residuals of partition i.
partSamples(subframe, partOrder, i) ==
    IF partOrder = 0 THEN subframe.NSamples - subframe.Order
    ELSE IF i # 0 THEN subframe.NSamples \div Pow2(partOrder)
    ELSE (subframe.NSamples \div Pow2(partOrder)) - subframe.Order

\* The loop of decodeRicePart over the partitions from i on; riceParam goes
\* on from the result p of br.Read(paramSize), ricePartDone from the result
\* part of the partition.
RECURSIVE ricePartitions(_, _, _, _, _, _)
RECURSIVE riceParam(_, _, _, _, _, _)
RECURSIVE ricePartDone(_, _, _, _, _)
ricePartitions(subframe, br, paramSize, partOrder, i, samples) ==
    IF i >= Pow2(partOrder) THEN [err |-> Nil, br |-> br, Samples |-> samples]
    ELSE riceParam(subframe, ReaderRead(br, paramSize), paramSize, partOrder, i, samples)
riceParam(subframe, p, paramSize, partOrder, i, samples) ==
    IF p.err # Nil THEN [err |-> unexpected(p.err), br |-> p.br, Samples |-> samples]
    ELSE ricePartDone(subframe,
                      ricePart(p.br, U64Int(p.x), paramSize,
                               partSamples(subframe, partOrder, i), samples),
                      paramSize, partOrder, i)
ricePartDone(subframe, part, paramSize, partOrder, i) ==
    IF part.err # Nil THEN part
    ELSE ricePartitions(subframe, part.br, paramSize, partOrder, i + 1, part.Samples)

\* The result res of the partitions with the partition order.
withPartOrder(res, partOrder) ==
    [err |-> res.err, Samples |-> res.Samples, PartOrder |-> partOrder]

\* decodeRicePart from the result x of br.Read(4) on.
ricePartOrder(subframe, x, paramSize) ==
    IF x.err # Nil
    THEN [err |-> unexpected(x.err), Samples |-> subframe.Samples, PartOrder |-> 0]
    ELSE withPartOrder(ricePartitions(subframe, x.br, paramSize, U64Int(x.x), 0,
                                      subframe.Samples),
                       U64Int(x.x))

\* Subframe.decodeRicePart.
decodeRicePart(subframe, br, paramSize) == ricePartOrder(subframe, ReaderRead(br, 4), paramSize)

\* decodeResiduals from the result x of br.Read(2) on.
residualMethod(subframe, x) ==
    IF x.err # Nil
    THEN [err |-> unexpected(x.err), Samples |-> subframe.Samples, PartOrder |-> 0]
    ELSE IF U64Int(x.x) = 0 THEN decodeRicePart(subframe, x.br, 4)
    ELSE IF U64Int(x.x) = 1 THEN decodeRicePart(subframe, x.br, 5)
    ELSE [err |-> ErrReservedMethod, Samples |-> subframe.Samples, PartOrder |-> 0]

\* Subframe.decodeResiduals.
decodeResiduals(subframe, br) == residualMethod(subframe, ReaderRead(br, 2))

\* The warm-up samples of decodeFixed; warmUpSample goes on from the result
\* x of br.Read(bps).
RECURSIVE warmUp(_, _, _, _)
RECURSIVE warmUpSample(_, _, _, _)
warmUp(br, bps, n, samples) ==
    IF n <= 0 THEN [err |-> Nil, br |-> br, Samples |-> samples]
    ELSE warmUpSample(ReaderRead(br, bps), bps, n, samples)
warmUpSample(x, bps, n, samples) ==
    IF x.err # Nil THEN [err |-> unexpected(x.err), br |-> x.br, Samples |-> samples]
    ELSE warmUp(x.br, bps, n - 1, Append(samples, signExtend(U64Wide(x.x), bps)))

\* decodeFixed from the decoded residuals r on.
fixedLPC(subframe, r) ==
    IF r.err # Nil THEN r
    ELSE withPartOrder(decodeLPC([subframe EXCEPT !.Samples = r.Samples],
                                 FixedCoeffs[subframe.Order], 0),
                       r.PartOrder)

\* decodeFixed from the warm-up samples w on.
fixedResiduals(subframe, w) ==
    IF w.err # Nil THEN [err |-> w.err, Samples |-> w.Samples, PartOrder |-> 0]
    ELSE fixedLPC(subframe, decodeResiduals([subframe EXCEPT !.Samples = w.Samples], w.br))

\* Subframe.decodeFixed.
decodeFixed(subframe, br, bps) ==
    fixedResiduals(subframe, warmUp(br, bps, subframe.Order, subframe.Samples))

MaxRiceBlock == 8
MaxPartOrder == 2
RiceBps == 4

\* The bits of v as an n-bit field.
FieldBits(v, n) == [i \in 1 .. n |-> (v \div Pow2(n - i)) % 2]

\* Bits packed into bytes, the last byte filled up with zero bits.
PackBytes(bitseq) ==
    LET padded == bitseq \o Zeros((8 - (Len(bitseq) % 8)) % 8)
    IN  [i \in 1 .. (Len(padded) \div 8) |-> SeqVal(SubSeq(padded, 8 * i - 7, 8 * i))]

\* The bits of the partitions from i on, each with the number of residuals
\* the format lays down for it: every residual is 0, or -1 in an escaped
\* partition of one bit per sample.
RECURSIVE PartitionBits(_, _, _, _, _)
PartitionBits(subframe, partOrder, paramSize, param, i) ==
    IF i >= Pow2(partOrder) THEN <<>>
    ELSE LET n == partSamples(subframe, partOrder, i)
             count == IF n < 0 THEN 0 ELSE n
             body == IF param = Pow2(paramSize) - 1
                     THEN FieldBits(1, 5) \o [j \in 1 .. count |-> 1]
                     ELSE [j \in 1 .. count * (param + 1) |->
                              IF j % (param + 1) = 1 % (param + 1) THEN 1 ELSE 0]
         IN  FieldBits(param, paramSize) \o body
             \o PartitionBits(subframe, partOrder, paramSize, param, i + 1)

\* The bytes of a Fixed subframe after its header.
FixedBody(subframe, method, partOrder, param) ==
    LET paramSize == IF method = 0 THEN 4 ELSE 5 IN
    PackBytes([j \in 1 .. RiceBps * subframe.Order |-> IF j % RiceBps = 0 THEN 1 ELSE 0]
              \o FieldBits(method, 2) \o FieldBits(partOrder, 4)
              \o PartitionBits(subframe, partOrder, paramSize, param, 0))

\* A Fixed subframe whose header is parsed, in front of its body; cut is
\* the number of bytes missing at the end of the body.
InitRice ==
    /\ stream = Idle
    /\ ret = Idle
    /\ \E n \in 1 .. MaxRiceBlock, order \in 0 .. 4, method \in 0 .. 2,
          partOrder \in 0 .. MaxPartOrder, sel \in 0 .. 2, cut \in 0 .. 1 :
          LET subframe == [NSamples |-> n, Order |-> order, Samples |-> <<>>]
              param == IF sel = 2 THEN (IF method = 0 THEN 15 ELSE 31) ELSE sel
              body == FixedBody(subframe, method, partOrder, param)
          IN  fx = [op |-> "rice", pc |-> 0, subframe |-> subframe, PartOrder |-> partOrder,
                    br |-> [data |-> SubSeq(body, 1, Len(body) - cut), pos |-> 0,
                            x |-> 0, n |-> 0],
                    err |-> Nil]

DecodeFixed ==
    /\ fx.op = "rice" /\ fx.pc = 0
    /\ LET res == decodeFixed(fx.subframe, fx.br, RiceBps) IN
       fx' = [fx EXCEPT !.pc = 1, !.err = res.err, !.subframe.Samples = res.Samples]
    /\ UNCHANGED <<stream, ret>>

NextRice == DecodeFixed

SpecRice == InitRice /\ [][NextRice]_vars

\* The sum of the residual counts of the partitions from i on.
RECURSIVE SumPartSamples(_, _, _)
SumPartSamples(subframe, partOrder, i) ==
    IF i >= Pow2(partOrder) THEN 0
    ELSE partSamples(subframe, partOrder, i) + SumPartSamples(subframe, partOrder, i + 1)

\* C26: decoding a Fixed subframe is an error when the block size is not
\* divisible by the number of partitions or partition 0 has no residual;
\* for an accepted subframe the partition counts sum to block size - order.
RicePartitioningChecked ==
    (fx.op = "rice" /\ fx.pc = 1) =>
        /\ (fx.subframe.NSamples % Pow2(fx.PartOrder) # 0
            \/ partSamples(fx.subframe, fx.PartOrder, 0) <= 0) => fx.err # Nil
        /\ fx.err = Nil =>
              SumPartSamples(fx.subframe, fx.PartOrder, 0)
                  = fx.subframe.NSamples - fx.subframe.Order

(***************************************************************************)
(* Subframe header: Subframe.parseHeader and encodeSubframeHeader.         *)
(***************************************************************************)
ErrPadding == "frame.Subframe.parseHeader: non-zero padding"
ErrReservedPred == "frame.Subframe.parseHeader: reserved prediction method bit pattern"

\* bits.WriteUnary: x zero bits and a one bit.
WriteUnary(x) == Zeros(x) \o <<1>>

\* parseHeader that takes the unary value itself for Wasted.
subframeParseHeaderUnary(subframe, br) ==
    LET pad == ReaderRead(br, 1)
        pred == ReaderRead(pad.br, 6)
        x == U64Int(pred.x)
        sub == IF x < 1 THEN [subframe EXCEPT !.Pred = PredConstant]
               ELSE IF x < 2 THEN [subframe EXCEPT !.Pred = PredVerbatim]
               ELSE IF x < 16 THEN [subframe EXCEPT !.Pred = PredFixed, !.Order = x % 8]
               ELSE [subframe EXCEPT !.Pred = PredFIR, !.Order = (x % 32) + 1]
        flag == ReaderRead(pred.br, 1)
        u == ReadUnary(flag.br)
    IN  IF pad.err # Nil THEN [err |-> unexpected(pad.err), subframe |-> subframe]
        ELSE IF U64Int(pad.x) # 0 THEN [err |-> ErrPadding, subframe |-> subframe]
        ELSE IF pred.err # Nil THEN [err |-> unexpected(pred.err), subframe |-> subframe]
        ELSE IF x >= 2 /\ x < 8 THEN [err |-> ErrReservedPred, subframe |-> subframe]
        ELSE IF x >= 8 /\ x < 16 /\ x % 8 > 4
        THEN [err |-> ErrReservedPred, subframe |-> subframe]
        ELSE IF x >= 16 /\ x < 32 THEN [err |-> ErrReservedPred, subframe |-> subframe]
        ELSE IF flag.err # Nil THEN [err |-> unexpected(flag.err), subframe |-> sub]
        ELSE IF U64Int(flag.x) = 0 THEN [err |-> Nil, subframe |-> sub]
        ELSE IF u.err # Nil THEN [err |-> unexpected(u.err), subframe |-> sub]
        ELSE [err |-> Nil, subframe |-> [sub EXCEPT !.Wasted = u.x]]

\* Subframe.parseHeader.
subframeParseHeader(subframe, br) ==
    LET pad == ReaderRead(br, 1)
        pred == ReaderRead(pad.br, 6)
        x == U64Int(pred.x)
        sub == IF x < 1 THEN [subframe EXCEPT !.Pred = PredConstant]
               ELSE IF x < 2 THEN [subframe EXCEPT !.Pred = PredVerbatim]
               ELSE IF x < 16 THEN [subframe EXCEPT !.Pred = PredFixed, !.Order = x % 8]
               ELSE [subframe EXCEPT !.Pred = PredFIR, !.Order = (x % 32) + 1]
        flag == ReaderRead(pred.br, 1)
        u == ReadUnary(flag.br)
    IN  IF pad.err # Nil THEN [err |-> unexpected(pad.err), subframe |-> subframe]
        ELSE IF U64Int(pad.x) # 0 THEN [err |-> ErrPadding, subframe |-> subframe]
        ELSE IF pred.err # Nil THEN [err |-> unexpected(pred.err), subframe |-> subframe]
        ELSE IF x >= 2 /\ x < 8 THEN [err |-> ErrReservedPred, subframe |-> subframe]
        ELSE IF x >= 8 /\ x < 16 /\ x % 8 > 4
        THEN [err |-> ErrReservedPred, subframe |-> subframe]
        ELSE IF x >= 16 /\ x < 32 THEN [err |-> ErrReservedPred, subframe |-> subframe]
        ELSE IF flag.err # Nil THEN [err |-> unexpected(flag.err), subframe |-> sub]
        ELSE IF U64Int(flag.x) = 0 THEN [err |-> Nil, subframe |-> sub]
        ELSE IF u.err # Nil THEN [err |-> unexpected(u.err), subframe |-> sub]
        ELSE [err |-> Nil, subframe |-> [sub EXCEPT !.Wasted = u.x + 1]]

\* encodeSubframeHeader: the bits written.
encodeSubframeHeader(subHdr) ==
    LET ubits == CASE subHdr.Pred = PredConstant -> 0
                   [] subHdr.Pred = PredVerbatim -> 1
                   [] subHdr.Pred = PredFixed -> BitOr(8, subHdr.Order, 6)
                   [] subHdr.Pred = PredFIR -> BitOr(32, subHdr.Order - 1, 6)
        hasWastedBits == subHdr.Wasted > 0
    IN  FieldBits(0, 1) \o FieldBits(ubits, 6)
        \o (IF hasWastedBits THEN <<1>> \o WriteUnary(subHdr.Wasted - 1) ELSE <<0>>)

MaxWasted == 10

\* What may follow the first byte of a header taken from a stream.
HeaderTails == {<<>>, <<128>>, <<0, 64>>, <<0>>}

SubHeaders ==
    {[Pred |-> p, Order |-> 0, Wasted |-> w] : p \in {PredConstant, PredVerbatim},
                                               w \in 0 .. MaxWasted}
    \cup {[Pred |-> PredFixed, Order |-> o, Wasted |-> w] : o \in 0 .. 4,
                                                            w \in 0 .. MaxWasted}
    \cup {[Pred |-> PredFIR, Order |-> o, Wasted |-> w] : o \in 1 .. 32,
                                                          w \in 0 .. MaxWasted}

NewSubframe == [Pred |-> PredConstant, Order |-> 0, Wasted |-> 0]

\* Either a header to encode, or the bytes of a stream in front of a
\* subframe.
InitSubHeader ==
    /\ stream = Idle
    /\ ret = Idle
    /\ \/ \E h \in SubHeaders :
             fx = [op |-> "subheader", pc |-> "encode", call |-> "none", subHdr |-> h,
                   data |-> <<>>, subframe |-> NewSubframe, err |-> Nil]
       \/ \E b \in 0 .. 255, t \in HeaderTails :
             fx = [op |-> "subheader", pc |-> "parse", call |-> "none",
                   subHdr |-> NewSubframe, data |-> <<b>> \o t, subframe |-> NewSubframe,
                   err |-> Nil]

EncodeSubframeHeader ==
    /\ fx.op = "subheader" /\ fx.pc = "encode"
    /\ fx' = [fx EXCEPT !.pc = "parse", !.call = "encode",
                        !.data = PackBytes(encodeSubframeHeader(fx.subHdr))]
    /\ UNCHANGED <<stream, ret>>

SubframeParseHeader ==
    /\ fx.op = "subheader" /\ fx.pc = "parse"
    /\ LET res == subframeParseHeader(NewSubframe,
                                      [data |-> fx.data, pos |-> 0, x |-> 0, n |-> 0])
       IN  fx' = [fx EXCEPT !.pc = "done", !.subframe = res.subframe, !.err = res.err,
                            !.call = IF fx.call = "encode" THEN "both" ELSE "parse"]
    /\ UNCHANGED <<stream, ret>>

NextSubHeader == EncodeSubframeHeader \/ SubframeParseHeader

SpecSubHeader == InitSubHeader /\ [][NextSubHeader]_vars

\* The number of zero bits of data from bit k on up to the next one bit,
\* -1 when no one bit follows.
RECURSIVE ZeroRun(_, _)
ZeroRun(data, k) ==
    IF k > 8 * Len(data) THEN 0 - 1
    ELSE IF SourceBit(data, k) = 1 THEN 0
    ELSE LET rest == ZeroRun(data, k + 1) IN IF rest < 0 THEN rest ELSE rest + 1

\* The 6-bit codes that name no prediction method.
ReservedCodes == (2 .. 7) \cup (13 .. 15) \cup (16 .. 31)

\* C27: parseHeader rejects a non-zero padding bit and the reserved codes,
\* maps the other codes to Constant, Verbatim, Fixed of order xxx and FIR
\* of order xxxxx + 1, and takes Wasted as the unary value plus 1 when the
\* flag is set; the header written by encodeSubframeHeader parses back to
\* the same predictor, order and wasted count.
SubframeHeaderLaw ==
    (fx.op = "subheader" /\ fx.pc = "done") =>
        LET pad == fx.data[1] \div 128
            code == (fx.data[1] \div 2) % 64
            flag == fx.data[1] % 2
            run == ZeroRun(fx.data, 9)
        IN  /\ fx.call = "parse" =>
                 /\ (pad # 0 \/ code \in ReservedCodes) => fx.err # Nil
                 /\ fx.err = Nil <=>
                       (pad = 0 /\ code \notin ReservedCodes /\ (flag = 1 => run >= 0))
                 /\ fx.err = Nil =>
                       /\ fx.subframe.Pred = (CASE code = 0 -> PredConstant
                                                [] code = 1 -> PredVerbatim
                                                [] code \in 8 .. 12 -> PredFixed
                                                [] OTHER -> PredFIR)
                       /\ fx.subframe.Order = (CASE code \in 8 .. 12 -> code - 8
                                                 [] code >= 32 -> code - 31
                                                 [] OTHER -> 0)
                       /\ fx.subframe.Wasted = (IF flag = 1 THEN run + 1 ELSE 0)
            /\ fx.call = "both" => (fx.err = Nil /\ fx.subframe = fx.subHdr)

\* A FIR header of order 32 with 10 wasted bits was written and read back.
SubframeHeaderWitness ==
    /\ fx.op = "subheader" /\ fx.pc = "done" /\ fx.call = "both"
    /\ fx.subHdr.Pred = PredFIR /\ fx.subHdr.Order = 32
    /\ fx.subHdr.Wasted >= 9 /\ fx.subframe = fx.subHdr

(***************************************************************************)
(* Rice coded residuals: encodeRiceResidual and decodeRiceResidual.        *)
(***************************************************************************)
\* v & w on uint32.
WAnd(v, w) == [h |-> BitAnd(v.h, w.h, 16), l |-> BitAnd(v.l, w.l, 16)]

\* int(v) of a uint32 below 2^31.
WInt(w) == w.h * Half + w.l

\* bw.WriteBits(w, n): the n low bits of w, the highest first.
WriteBits(w, n) == [i \in 1 .. n |-> WBit(w, n - i)]

\* encodeRiceResidual that writes the low bits in front of the quotient.
encodeRiceResidualLowFirst(k, residual) ==
    LET folded == EncodeZigZag(residual)
        lowMask == WShr(WOnes(32), 32 - k)
        highMask == Shl32(WOnes(32), k)
        high == WShr(WAnd(folded, highMask), k)
        low == WAnd(folded, lowMask)
    IN  WriteBits(low, k) \o WriteUnary(WInt(high))

\* encodeRiceResidual: the bits written.
encodeRiceResidual(k, residual) ==
    LET folded == EncodeZigZag(residual)
        lowMask == WShr(WOnes(32), 32 - k)
        highMask == Shl32(WOnes(32), k)
        high == WShr(WAnd(folded, highMask), k)
        low == WAnd(folded, lowMask)
    IN  WriteUnary(WInt(high)) \o WriteBits(low, k)

MaxQuot == 3

\* The Rice parameters of a 4-bit and of a 5-bit field but the escape code.
RiceParams == {<<4, k>> : k \in 0 .. 14} \cup {<<5, k>> : k \in 0 .. 30}

\* Residuals whose quotient under parameter k is at most MaxQuot, the
\* smallest and the largest remainders among them; with k = 30 they reach
\* from the smallest to the largest int32.
RiceResiduals(k) ==
    LET unit == IF k = 0 THEN 1 ELSE Pow2(k - 1)
        top == Min(MaxQuot, MaxInt32 \div unit)
        base == {q * unit + m : q \in 0 .. top, m \in {0, unit \div 2, unit - 1}}
    IN  base \cup {0 - b - 1 : b \in base}

InitRiceResidual ==
    /\ stream = Idle
    /\ fx = Idle
    /\ \E p \in RiceParams : \E r \in RiceResiduals(p[2]) :
          ret = [op |-> "riceResidual", pc |-> 0, paramSize |-> p[1], k |-> p[2],
                 residual |-> r, bits |-> <<>>, out |-> 0, err |-> Nil]

EncodeRiceResidual ==
    /\ ret.op = "riceResidual" /\ ret.pc = 0
    /\ ret' = [ret EXCEPT !.pc = 1, !.bits = encodeRiceResidual(ret.k, ret.residual)]
    /\ UNCHANGED <<stream, fx>>

DecodeRiceResidual ==
    /\ ret.op = "riceResidual" /\ ret.pc = 1
    /\ LET res == decodeRiceResidual([data |-> PackBytes(ret.bits), pos |-> 0,
                                      x |-> 0, n |-> 0], ret.k)
       IN  ret' = [ret EXCEPT !.pc = 2, !.out = res.residual, !.err = res.err]
    /\ UNCHANGED <<stream, fx>>

NextRiceResidual == EncodeRiceResidual \/ DecodeRiceResidual

SpecRiceResidual == InitRiceResidual /\ [][NextRiceResidual]_vars

\* zigzag(r) >> k and the low k bits of zigzag(r), by the magnitude of r.
ZigQuot(r, k) ==
    LET b == IF r >= 0 THEN r ELSE 0 - (r + 1)
    IN  IF k = 0 THEN 2 * b + (IF r < 0 THEN 1 ELSE 0) ELSE b \div Pow2(k - 1)
ZigRem(r, k) ==
    LET b == IF r >= 0 THEN r ELSE 0 - (r + 1)
    IN  IF k = 0 THEN 0 ELSE 2 * (b % Pow2(k - 1)) + (IF r < 0 THEN 1 ELSE 0)

\* C28: for every Rice parameter but the escape code and every residual,
\* the bits written are the unary quotient zigzag(r) >> k and then the low
\* k bits of zigzag(r), and decodeRiceResidual reads the residual back
\* from them, k = 0 included.
RiceResidualLaw ==
    /\ (ret.op = "riceResidual" /\ ret.pc >= 1) =>
          ret.bits = Zeros(ZigQuot(ret.residual, ret.k)) \o <<1>>
                     \o FieldBits(ZigRem(ret.residual, ret.k), ret.k)
    /\ (ret.op = "riceResidual" /\ ret.pc = 2) =>
          (ret.err = Nil /\ ret.out = ret.residual)

\* The smallest int32 went through a 30-bit remainder.
RiceResidualWitness ==
    /\ ret.op = "riceResidual" /\ ret.pc = 2 /\ ret.err = Nil
    /\ ret.residual = MinInt32 /\ ret.k = 30 /\ ret.out = MinInt32

SeekNeverCrashes ==
    ret.op = "Seek" =>
        /\ ret.err # Panic
        /\ ~stream.r.seekable => ret.err = ErrNoSeeker
        /\ (/\ stream.r.seekable
            /\ stream.seekTable # <<>> /\ stream.seekTable[1].Points = <<>>
            /\ (stream.Info.NSamples = 0 \/ ret.arg < stream.Info.NSamples)) =>
              ret.err = ErrNoSeektable

====
